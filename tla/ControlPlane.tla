---------------------------- MODULE ControlPlane -----------------------------
(***************************************************************************)
(* The operator's control plane over the scheduler: the commands of        *)
(* control/plane.py, run one at a time under the command lock, each a      *)
(* sequence of steps between which the scan thread moves on and the        *)
(* process may die.  The control state is written to a file at every       *)
(* transition and read back by the next process; the scheduler and the     *)
(* kill switch start afresh.                                               *)
(***************************************************************************)
EXTENDS Scheduler

CONSTANT MaxRestarts    \* bound: restarts of the process

ASSUME RestartsAreCounted == MaxRestarts \in Nat

VARIABLES control,      \* ControlPlaneStateMachine._snapshot.system_state, and its file
          command,      \* the command that holds the lock, and its next step
          interrupted,  \* history: the last process died between two states
          quiet,        \* history: a pause took hold, and no command came since
          open,         \* does the tracker hold open positions?
          restarts

vars == <<schedVars, control, command, interrupted, quiet, open, restarts>>

ControlStates ==
  {"STOPPED", "STARTING", "RUNNING", "PAUSING", "PAUSED", "STOPPING",
   "EMERGENCY_STOP", "ERROR", "RECOVERING"}

\* Mutant of ControlTransitions: an error can be started over.
TransitionsFromError ==
  [s \in ControlStates |->
    CASE s = "EMERGENCY_STOP" -> {"RECOVERING", "STOPPED", "ERROR"}
      [] s = "ERROR" -> {"STARTING", "RECOVERING", "STOPPED", "EMERGENCY_STOP"}
      [] s \in {"STOPPED", "PAUSED", "RUNNING", "RECOVERING"} ->
           {"STARTING", "PAUSING", "STOPPING", "EMERGENCY_STOP", "ERROR"}
      [] OTHER -> {"RUNNING", "PAUSED", "STOPPED", "EMERGENCY_STOP", "ERROR"}]

ControlTransitions ==
  [s \in ControlStates |->
    CASE s = "STOPPED"  -> {"STARTING", "EMERGENCY_STOP", "ERROR"}
      [] s = "STARTING" -> {"RUNNING", "STOPPING", "EMERGENCY_STOP", "ERROR"}
      [] s = "RUNNING"  -> {"PAUSING", "STOPPING", "EMERGENCY_STOP", "ERROR"}
      [] s = "PAUSING"  -> {"PAUSED", "STOPPING", "EMERGENCY_STOP", "ERROR"}
      [] s = "PAUSED"   -> {"RUNNING", "STARTING", "STOPPING", "EMERGENCY_STOP", "ERROR"}
      [] s = "STOPPING" -> {"STOPPED", "EMERGENCY_STOP", "ERROR"}
      [] s = "EMERGENCY_STOP" -> {"RECOVERING", "STOPPED", "ERROR"}
      [] s = "ERROR"    -> {"RECOVERING", "STOPPED", "EMERGENCY_STOP"}
      [] s = "RECOVERING" -> {"STOPPED", "RUNNING", "ERROR", "EMERGENCY_STOP"}]

\* transition_to accepts the current state (a no-op) and the table's targets.
Accepts(to) == to = control \/ to \in ControlTransitions[control]

\* The states a command passes through.
BetweenStates == {"STARTING", "PAUSING", "STOPPING"}

Commands ==
  [name : {"none", "start", "stop", "pause", "resume", "emergency", "flatten"},
   step : {"none", "begin", "preflight", "finish", "flatten", "pause", "resume", "halt", "done"},
   restart : BOOLEAN]

NoCommand == [name |-> "none", step |-> "none", restart |-> FALSE]
Resting == command = NoCommand

At(name, step) == command.name = name /\ command.step = step
GoTo(step) == command' = [command EXCEPT !.step = step]
Return == command' = NoCommand
Call(name, step, again) ==
  /\ command' = [name |-> name, step |-> step, restart |-> again]
  /\ quiet' = FALSE

engineVars == <<schedVars, open>>
worldVars  == <<interrupted, restarts>>

-----------------------------------------------------------------------------
(* start_system.                                                           *)

\* RUNNING is answered at once; STARTING must be reachable, or the call raises.
Start ==
  /\ Resting /\ control # "RUNNING" /\ Accepts("STARTING")
  /\ control' = "STARTING" /\ Call("start", "preflight", FALSE)
  /\ UNCHANGED <<engineVars, worldVars>>

\* Mutant of StartPreflight: a failed check returns without the ERROR transition.
PreflightReturns ==
  /\ At("start", "preflight")
  /\ IF kill THEN Return ELSE GoTo("finish")
  /\ UNCHANGED <<control, engineVars, quiet, worldVars>>

\* _run_preflight_checks: the kill switch is what can fail at run time.
StartPreflight ==
  /\ At("start", "preflight")
  /\ IF kill THEN control' = "ERROR" /\ Return
             ELSE UNCHANGED control /\ GoTo("finish")
  /\ UNCHANGED <<engineVars, quiet, worldVars>>

\* engine.start raises on a scheduler that was started before and the exception
\* is swallowed, so a running process only changes the control state here.
StartFinish ==
  /\ At("start", "finish")
  /\ control' = "RUNNING" /\ Return
  /\ UNCHANGED <<engineVars, quiet, worldVars>>

-----------------------------------------------------------------------------
(* stop_system and restart_system.                                         *)

Stop(again) ==
  /\ Resting /\ control # "STOPPED" /\ Accepts("STOPPING")
  /\ control' = "STOPPING"
  /\ Call("stop", IF again THEN "pause" ELSE "flatten", again)
  /\ UNCHANGED <<engineVars, worldVars>>

\* restart_system from STOPPED: stop answers at once, start follows.
RestartStopped ==
  /\ Resting /\ control = "STOPPED"
  /\ Call("start", "begin", FALSE)
  /\ UNCHANGED <<engineVars, control, worldVars>>

\* flatten_positions asks the danger manager for a method it does not have and
\* skips every position.
Flatten == UNCHANGED open

StopFlatten ==
  /\ At("stop", "flatten")
  /\ Flatten /\ GoTo("pause")
  /\ UNCHANGED <<schedVars, control, quiet, worldVars>>

StopPause ==
  /\ At("stop", "pause")
  /\ RequestPause /\ GoTo("finish")
  /\ UNCHANGED <<control, open, quiet, worldVars>>

StopFinish ==
  /\ At("stop", "finish") /\ pending = "none"
  /\ control' = "STOPPED"
  /\ command' = IF command.restart
                THEN [name |-> "start", step |-> "begin", restart |-> FALSE]
                ELSE NoCommand
  /\ UNCHANGED <<engineVars, quiet, worldVars>>

\* A restart goes on, under the same lock, with start_system.
RestartStart ==
  /\ At("start", "begin")
  /\ control' = "STARTING" /\ GoTo("preflight")
  /\ UNCHANGED <<engineVars, quiet, worldVars>>

-----------------------------------------------------------------------------
(* pause_system and resume_system.                                         *)

Pause ==
  /\ Resting /\ control # "PAUSED" /\ Accepts("PAUSING")
  /\ control' = "PAUSING" /\ Call("pause", "pause", FALSE)
  /\ UNCHANGED <<engineVars, worldVars>>

PauseEngine ==
  /\ At("pause", "pause")
  /\ RequestPause /\ GoTo("finish")
  /\ UNCHANGED <<control, open, quiet, worldVars>>

PauseFinish ==
  /\ At("pause", "finish") /\ pending = "none"
  /\ control' = "PAUSED" /\ Return
  /\ quiet' = (sched = "PAUSED" /\ tick = "idle")
  /\ UNCHANGED <<engineVars, worldVars>>

\* The preflight fails without a transition; nothing checks the control state.
Resume ==
  /\ Resting /\ control # "RUNNING" /\ ~kill
  /\ Call("resume", "resume", FALSE)
  /\ UNCHANGED <<engineVars, control, worldVars>>

ResumeEngine ==
  /\ At("resume", "resume")
  /\ RequestResume /\ GoTo("finish")
  /\ UNCHANGED <<control, open, quiet, worldVars>>

\* The transition comes last and may raise, after the engine was resumed.
ResumeFinish ==
  /\ At("resume", "finish") /\ pending = "none"
  /\ control' = IF Accepts("RUNNING") THEN "RUNNING" ELSE control
  /\ Return
  /\ UNCHANGED <<engineVars, quiet, worldVars>>

-----------------------------------------------------------------------------
(* emergency_stop: the kill switch, the scheduler, the control state.       *)

\* Mutant of EmergencyStop: the kill switch is left to the end.
EmergencyWithoutKill ==
  /\ Resting
  /\ Call("emergency", "halt", FALSE)
  /\ UNCHANGED <<engineVars, control, worldVars>>

EmergencyStop ==
  /\ Resting
  /\ ActivateKillSwitch
  /\ Call("emergency", "halt", FALSE)
  /\ UNCHANGED <<control, open, worldVars>>

EmergencyHalt ==
  /\ At("emergency", "halt")
  /\ Request("KILL_SWITCH") /\ GoTo("finish")
  /\ UNCHANGED <<control, open, quiet, worldVars>>

EmergencyFinish ==
  /\ At("emergency", "finish") /\ pending = "none"
  /\ control' = IF Accepts("EMERGENCY_STOP") THEN "EMERGENCY_STOP" ELSE control
  /\ Return
  /\ UNCHANGED <<engineVars, quiet, worldVars>>

\* The /flatten command on its own.
FlattenCommand ==
  /\ Resting
  /\ Flatten
  /\ Call("flatten", "done", FALSE)
  /\ UNCHANGED <<schedVars, control, worldVars>>

FlattenReturn ==
  /\ At("flatten", "done") /\ Return
  /\ UNCHANGED <<engineVars, control, quiet, worldVars>>

\* The engine's half of a transition a command asked for.
EngineWrites ==
  /\ WritePending
  /\ UNCHANGED <<control, command, open, quiet, worldVars>>

-----------------------------------------------------------------------------
(* The engine and the process around the commands.                         *)

Scan == ScanStep /\ UNCHANGED <<control, command, open, quiet, worldVars>>

\* A scan enters a position (never past an active kill switch) or closes one.
ScanTrades ==
  /\ tick = "scan"
  /\ \/ ~open /\ ~kill /\ open' = TRUE
     \/ open /\ open' = FALSE
  /\ UNCHANGED <<schedVars, control, command, quiet, worldVars>>

\* The end of the main thread: engine.shutdown; scans in flight run on.
ShutDown == Shutdown /\ UNCHANGED <<control, command, open, quiet, worldVars>>

\* The process dies, at any step, and a new one loads the control state; nothing
\* of the engine was stored.
Restart ==
  /\ restarts < MaxRestarts
  /\ restarts' = restarts + 1
  /\ interrupted' = (control \in BetweenStates) /\ quiet' = FALSE
  /\ SchedulerStarted /\ open' = FALSE /\ Return
  /\ UNCHANGED control

-----------------------------------------------------------------------------
Init ==
  /\ sched = "DATA_CONNECTING" /\ running = FALSE /\ failures = 0
  /\ tick = "idle" /\ pending = "none" /\ kill = FALSE
  /\ control = "STOPPED" /\ command = NoCommand /\ interrupted = FALSE /\ quiet = FALSE
  /\ open = FALSE /\ restarts = 0

CommandStep ==
  \/ StartPreflight \/ StartFinish
  \/ StopFlatten \/ StopPause \/ StopFinish \/ RestartStart
  \/ PauseEngine \/ PauseFinish \/ ResumeEngine \/ ResumeFinish
  \/ EmergencyHalt \/ EmergencyFinish \/ FlattenReturn \/ EngineWrites

Issue ==
  \/ Start \/ Stop(FALSE) \/ Stop(TRUE) \/ RestartStopped \/ Pause \/ Resume
  \/ EmergencyStop \/ FlattenCommand

Next == Issue \/ CommandStep \/ Scan \/ ScanTrades \/ ShutDown \/ Restart

Spec == Init /\ [][Next]_vars

-----------------------------------------------------------------------------
(* Properties                                                              *)

TypeOK ==
  /\ SchedulerTypeOK
  /\ control \in ControlStates
  /\ command \in Commands
  /\ interrupted \in BOOLEAN /\ quiet \in BOOLEAN /\ open \in BOOLEAN
  /\ restarts \in 0..MaxRestarts

\* A command never returns, or raises, with the system between two states: only
\* a process that died inside a command leaves STARTING, PAUSING or STOPPING.
BetweenStatesOnlyInFlight ==
  Resting /\ control \in BetweenStates => interrupted

\* An emergency stop is recorded only once the kill switch blocks entries, and
\* the scheduler stands in KILL_SWITCH only with the kill switch active, however
\* the scan thread's own trips and the commands interleave.
KillSwitchComesFirst ==
  /\ sched = "KILL_SWITCH" => kill
  /\ pending = "KILL_SWITCH" => kill
  /\ At("emergency", "finish") => kill

\* No command, crash or restart leads out of a recorded emergency stop, and only
\* an emergency stop leads out of a recorded error.
LatchedStatesHold ==
  [][/\ control = "EMERGENCY_STOP" => control' = "EMERGENCY_STOP"
     /\ control = "ERROR" => control' \in {"ERROR", "EMERGENCY_STOP"}]_vars

\* A pause that took hold between two ticks lasts until the next command: no
\* later tick, failure or drawdown trip starts a scan.
QuietStaysQuiet == quiet => control = "PAUSED" /\ sched # "SCANNING" /\ tick = "idle"

\* control/plane.py, start_system: "APEX started successfully. Autonomous paper
\* operations active." A start that succeeds leaves no scheduler that is still paused.
StartedSystemScans ==
  [][At("start", "finish") /\ control' = "RUNNING" => sched # "PAUSED"]_vars

\* control/plane.py, emergency_stop: "All new entries permanently blocked."
EmergencyBlocksEntries == control = "EMERGENCY_STOP" => kill

\* control/plane.py, flatten_positions: "Flatten open positions exclusively
\* through the approved OEM safety chain": a flatten leaves none open.
FlattenCloses ==
  [][\/ At("stop", "flatten") /\ command'.step = "pause"
     \/ Resting /\ command'.name = "flatten"
     => ~open']_vars

-----------------------------------------------------------------------------
(* Why the properties hold: an inductive invariant.                        *)

\* The command that holds the lock knows the control state: nobody else moves it.
CommandHoldsState ==
  /\ Resting \/ command.name # "none"
  /\ command.name = "start" =>
       control = IF command.step = "begin" THEN "STOPPED" ELSE "STARTING"
  /\ command.name = "stop" => control = "STOPPING"
  /\ command.name = "pause" => control = "PAUSING"
  /\ control \in BetweenStates =>
       command.name \in {"start", "stop", "pause"} \/ interrupted

\* A requested transition is written before its command ends.
RequestsEndInTime ==
  pending # "none" => command.step = "finish" /\ command.name # "start"

\* Whoever moves the scheduler to KILL_SWITCH tripped the kill switch before.
KillIsTripped == KillSwitchComesFirst /\ (tick \in {"halt", "halting"} \/ At("emergency", "halt") => kill)

\* A pause that took hold leaves nothing running and nothing requested.
QuietIsAtRest ==
  quiet => Resting /\ control = "PAUSED" /\ sched \in {"PAUSED", "SHUTDOWN"} /\ tick = "idle"

IInv == TypeOK /\ CommandHoldsState /\ RequestsEndInTime /\ KillIsTripped /\ QuietIsAtRest
===============================================================================
