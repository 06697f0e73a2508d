------------------------------ MODULE Scheduler ------------------------------
(***************************************************************************)
(* The scan scheduler, its state machine and the kill switch: the part of  *)
(* the engine the operator's commands act on.                              *)
(*                                                                         *)
(* A transition checks the current state against the table and then writes *)
(* the new one.  Ticks do this under the scheduler's lock; pause, resume   *)
(* and the kill switch do not take it, so their writes may fall between a  *)
(* check and its write.  `tick` is where the scan thread stands; `pending` *)
(* is the state another thread has validated and is about to write.        *)
(***************************************************************************)
EXTENDS Naturals

CONSTANT MaxConsecutiveFailures

ASSUME FailuresAreCounted == MaxConsecutiveFailures \in Nat \ {0}

VARIABLES sched,     \* StateMachine._state
          running,   \* ScanScheduler._running
          failures,  \* ScanScheduler._consecutive_failures
          tick,      \* the scan thread's place in tick()
          pending,   \* a validated state a command is about to write, or "none"
          kill       \* KillSwitch.is_active

schedVars == <<sched, running, failures, tick, pending, kill>>

SystemStates ==
  {"BOOT", "SELF_CHECK", "DATA_CONNECTING", "SCANNING", "PAUSED", "KILL_SWITCH",
   "DATA_UNSAFE", "EXECUTION_UNSAFE", "SYSTEM_FAULT", "SHUTDOWN"}

ValidTransitions ==
  [s \in SystemStates |->
    CASE s = "BOOT"             -> {"SELF_CHECK", "SHUTDOWN"}
      [] s = "SELF_CHECK"       -> {"DATA_CONNECTING", "SYSTEM_FAULT", "SHUTDOWN"}
      [] s = "DATA_CONNECTING"  -> {"SCANNING", "DATA_UNSAFE", "KILL_SWITCH",
                                    "SYSTEM_FAULT", "SHUTDOWN"}
      [] s = "SCANNING"         -> {"PAUSED", "DATA_UNSAFE", "EXECUTION_UNSAFE",
                                    "KILL_SWITCH", "SYSTEM_FAULT", "SHUTDOWN"}
      [] s = "PAUSED"           -> {"SCANNING", "KILL_SWITCH", "SHUTDOWN"}
      [] s = "KILL_SWITCH"      -> {"SHUTDOWN"}
      [] s = "DATA_UNSAFE"      -> {"DATA_CONNECTING", "KILL_SWITCH", "SHUTDOWN"}
      [] s \in {"EXECUTION_UNSAFE", "SYSTEM_FAULT"} -> {"KILL_SWITCH", "SHUTDOWN"}
      [] s = "SHUTDOWN"         -> {}]

\* Mutant of CanScan: a paused scheduler still scans.
CanScanPaused == sched \in {"SCANNING", "DATA_CONNECTING", "PAUSED"}

CanScan == sched \in {"SCANNING", "DATA_CONNECTING"}

\* The scheduler of a fresh process, after ScanScheduler.start.
SchedulerStarted ==
  /\ sched' = "DATA_CONNECTING" /\ running' = FALSE /\ failures' = 0
  /\ tick' = "idle" /\ pending' = "none" /\ kill' = FALSE

SchedulerTypeOK ==
  /\ sched \in SystemStates
  /\ running \in BOOLEAN /\ kill \in BOOLEAN
  /\ failures \in 0..MaxConsecutiveFailures
  /\ tick \in {"idle", "validate", "write", "scan", "halt", "halting", "failed"}
  /\ pending \in SystemStates \cup {"none"}

-----------------------------------------------------------------------------
(* The scan thread.                                                        *)

\* tick(), under the lock: not shut down, no scan running, scanning permitted.
TickBegin ==
  /\ tick = "idle" /\ ~running /\ CanScan
  /\ running' = TRUE /\ tick' = "validate"
  /\ UNCHANGED <<sched, failures, pending, kill>>

\* transition(SCANNING), its check.  A state that no longer allows it raises
\* before the try block, and _running stays set.
TickValidate ==
  /\ tick = "validate"
  /\ tick' = IF sched = "SCANNING" THEN "scan"
             ELSE IF "SCANNING" \in ValidTransitions[sched] THEN "write" ELSE "idle"
  /\ UNCHANGED <<sched, running, failures, pending, kill>>

TickWrite ==
  /\ tick = "write"
  /\ sched' = "SCANNING" /\ tick' = "scan"
  /\ UNCHANGED <<running, failures, pending, kill>>

\* _check_daily_drawdown_tick trips the kill switch, then the scheduler, without
\* its lock; an illegal transition raises and is swallowed.
DrawdownTrips ==
  /\ tick = "scan"
  /\ kill' = TRUE /\ tick' = "halt"
  /\ UNCHANGED <<sched, running, failures, pending>>

DrawdownHalts ==
  /\ tick = "halt"
  /\ tick' = IF "KILL_SWITCH" \in ValidTransitions[sched] THEN "halting" ELSE "scan"
  /\ UNCHANGED <<sched, running, failures, pending, kill>>

DrawdownWrites ==
  /\ tick = "halting"
  /\ sched' = "KILL_SWITCH" /\ tick' = "scan"
  /\ UNCHANGED <<running, failures, pending, kill>>

ScanSucceeds ==
  /\ tick = "scan"
  /\ failures' = 0 /\ running' = FALSE /\ tick' = "idle"
  /\ UNCHANGED <<sched, pending, kill>>

\* Mutant of ScanFails: nothing compares the count with its limit.
ScanFailsForever ==
  /\ tick = "scan"
  /\ failures < 2 * MaxConsecutiveFailures
  /\ failures' = failures + 1
  /\ tick' = "idle" /\ running' = FALSE
  /\ UNCHANGED <<sched, pending, kill>>

\* A scan that raises counts (the count stops here where the code only compares);
\* from the limit on the scheduler pauses itself.
ScanFails ==
  /\ tick = "scan"
  /\ failures' = IF failures < MaxConsecutiveFailures THEN failures + 1 ELSE failures
  /\ IF failures' >= MaxConsecutiveFailures /\ "PAUSED" \in ValidTransitions[sched]
     THEN tick' = "failed" /\ UNCHANGED running
     ELSE tick' = "idle" /\ running' = FALSE
  /\ UNCHANGED <<sched, pending, kill>>

\* ... the write of that pause, and the end of the tick.
FailurePauses ==
  /\ tick = "failed"
  /\ sched' = "PAUSED" /\ running' = FALSE /\ tick' = "idle"
  /\ UNCHANGED <<failures, pending, kill>>

ScanStep ==
  \/ TickBegin \/ TickValidate \/ TickWrite \/ DrawdownTrips \/ DrawdownHalts
  \/ DrawdownWrites \/ ScanSucceeds \/ ScanFails \/ FailurePauses

-----------------------------------------------------------------------------
(* What the commands call.                                                 *)

\* transition(to): checked now, written by WritePending; an illegal one raises
\* and the caller goes on.
Request(to) ==
  /\ pending' = IF to \in ValidTransitions[sched] THEN to ELSE "none"
  /\ UNCHANGED <<sched, running, failures, tick, kill>>

RequestPause ==
  IF sched = "SCANNING" THEN Request("PAUSED") ELSE UNCHANGED schedVars

RequestResume ==
  IF sched = "PAUSED" THEN Request("SCANNING") ELSE UNCHANGED schedVars

ActivateKillSwitch ==
  /\ kill' = TRUE
  /\ UNCHANGED <<sched, running, failures, tick, pending>>

WritePending ==
  /\ pending # "none"
  /\ sched' = pending /\ pending' = "none"
  /\ UNCHANGED <<running, failures, tick, kill>>

\* shutdown(), under the lock: never between a tick's check and its write.
Shutdown ==
  /\ sched # "SHUTDOWN"
  /\ tick \notin {"validate", "write", "failed"}
  /\ sched' = "SHUTDOWN"
  /\ UNCHANGED <<running, failures, tick, pending, kill>>
===============================================================================
