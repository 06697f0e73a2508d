\* Two processes that run the orchestrator, one task, one that needs a human.
CONSTANTS
  Runners = {r1, r2}
  Nobody = nobody
  Tasks = {t1, t2}
  HumanTasks = {t2}
  NoTask = none
  MaxAttempts <- SmallLimits
  MaxSteps = 2
  MaxCrashes = 1
SPECIFICATION Spec
INVARIANTS TypeOK OneBuilder   LockLeaksByCrashOnly
CHECK_DEADLOCK FALSE
PROPERTIES RunsEnd
