------------------------- MODULE ControlPlane_proofs -------------------------
(***************************************************************************)
(* Proofs about ControlPlane, for every failure limit and any number of    *)
(* restarts: IInv is inductive, and the safety properties follow from it.  *)
(***************************************************************************)
EXTENDS ControlPlane, TLAPS

-----------------------------------------------------------------------------
(* The steps of the commands, of the scan thread and of the process.        *)

\* A start takes the lock and moves to STARTING.
LEMMA StartStep ==
  ASSUME IInv, Start
  PROVE  IInv'
<1> USE DEF IInv
<1>1. TypeOK'
  <2>1. command' \in Commands
    BY DEF Start, Call, Commands
  <2>2. quiet' \in BOOLEAN
    BY DEF Start, Call
  <2>3. control' \in ControlStates /\ UNCHANGED <<open, interrupted, restarts>>
    BY DEF Start, engineVars, worldVars, ControlStates, TypeOK
  <2>4. SchedulerTypeOK'
    BY DEF Start, engineVars, schedVars, TypeOK, SchedulerTypeOK
  <2> QED
    BY <2>1, <2>2, <2>3, <2>4 DEF TypeOK
<1>2. CommandHoldsState'
  BY DEF Start, Call, CommandHoldsState
<1>3. RequestsEndInTime'
  BY DEF Start, Resting, engineVars, schedVars, RequestsEndInTime, NoCommand
<1>4. KillIsTripped'
  BY DEF Start, Call, engineVars, schedVars, KillIsTripped, KillSwitchComesFirst, At
<1>5. QuietIsAtRest'
  BY DEF Start, Call, QuietIsAtRest
<1> QED
  BY <1>1, <1>2, <1>3, <1>4, <1>5

\* A failed preflight ends the start in ERROR.
LEMMA StartPreflightStep ==
  ASSUME IInv, StartPreflight
  PROVE  IInv'
<1> USE DEF IInv
<1>1. TypeOK'
  <2>1. command' \in Commands
    <3>1. command' = NoCommand \/ command' = [command EXCEPT !.step = "finish"]
      BY DEF StartPreflight, Return, GoTo
    <3>2. NoCommand \in Commands
      BY DEF NoCommand, Commands
    <3>3. [command EXCEPT !.step = "finish"] \in Commands
      BY DEF Commands, TypeOK
    <3> QED
      BY <3>1, <3>2, <3>3
  <2>2. control' \in ControlStates
    BY DEF StartPreflight, ControlStates, TypeOK
  <2>3. SchedulerTypeOK' /\ UNCHANGED <<open, quiet, interrupted, restarts>>
    BY DEF StartPreflight, engineVars, schedVars, worldVars, TypeOK, SchedulerTypeOK
  <2> QED
    BY <2>1, <2>2, <2>3 DEF TypeOK
<1>2. CommandHoldsState'
  <2>1. command.name = "start" /\ command.step = "preflight" /\ control = "STARTING"
    BY DEF StartPreflight, At, CommandHoldsState
  <2>2. CASE kill
    <3>1. control' = "ERROR" /\ command' = NoCommand
      BY <2>2 DEF StartPreflight, Return
    <3> QED
      BY <3>1 DEF CommandHoldsState, Resting, NoCommand, BetweenStates
  <2>3. CASE ~kill
    <3>1. control' = control /\ command' = [command EXCEPT !.step = "finish"]
      BY <2>3 DEF StartPreflight, GoTo
    <3>2. command'.name = "start" /\ command'.step = "finish"
      BY <2>1, <3>1 DEF TypeOK, Commands
    <3> QED
      BY <2>1, <3>1, <3>2 DEF CommandHoldsState
  <2> QED
    BY <2>2, <2>3
<1>3. RequestsEndInTime'
  BY DEF StartPreflight, At, engineVars, schedVars, RequestsEndInTime
<1>4. KillIsTripped'
  <2>1. UNCHANGED <<sched, pending, tick, kill>>
    BY DEF StartPreflight, engineVars, schedVars
  <2>2. command'.name = "start" \/ command'.name = "none"
    BY DEF StartPreflight, At, Return, GoTo, NoCommand, TypeOK, Commands
  <2> QED
    BY <2>1, <2>2 DEF KillIsTripped, KillSwitchComesFirst, At
<1>5. QuietIsAtRest'
  BY DEF StartPreflight, At, QuietIsAtRest, CommandHoldsState
<1> QED
  BY <1>1, <1>2, <1>3, <1>4, <1>5

\* A start ends in RUNNING.
LEMMA StartFinishStep ==
  ASSUME IInv, StartFinish
  PROVE  IInv'
<1> USE DEF IInv
<1>1. TypeOK'
  BY DEF StartFinish, Return, engineVars, schedVars, worldVars, TypeOK, SchedulerTypeOK,
     ControlStates, NoCommand, Commands
<1>2. CommandHoldsState'
  BY DEF StartFinish, Return, CommandHoldsState, Resting, NoCommand, BetweenStates
<1>3. RequestsEndInTime'
  BY DEF StartFinish, At, engineVars, schedVars, RequestsEndInTime
<1>4. KillIsTripped'
  BY DEF StartFinish, At, Return, engineVars, schedVars, KillIsTripped,
     KillSwitchComesFirst, NoCommand
<1>5. QuietIsAtRest'
  BY DEF StartFinish, At, QuietIsAtRest, CommandHoldsState
<1> QED
  BY <1>1, <1>2, <1>3, <1>4, <1>5

\* A stop takes the lock and moves to STOPPING.
LEMMA StopStep ==
  ASSUME IInv, NEW again \in BOOLEAN, Stop(again)
  PROVE  IInv'
<1> USE DEF IInv
<1>1. TypeOK'
  <2>1. command' \in Commands
    BY DEF Stop, Call, Commands
  <2>2. quiet' \in BOOLEAN
    BY DEF Stop, Call
  <2>3. control' \in ControlStates /\ UNCHANGED <<open, interrupted, restarts>>
    BY DEF Stop, engineVars, worldVars, ControlStates, TypeOK
  <2>4. SchedulerTypeOK'
    BY DEF Stop, engineVars, schedVars, TypeOK, SchedulerTypeOK
  <2> QED
    BY <2>1, <2>2, <2>3, <2>4 DEF TypeOK
<1>2. CommandHoldsState'
  BY DEF Stop, Call, CommandHoldsState
<1>3. RequestsEndInTime'
  BY DEF Stop, Resting, engineVars, schedVars, RequestsEndInTime, NoCommand
<1>4. KillIsTripped'
  BY DEF Stop, Call, engineVars, schedVars, KillIsTripped, KillSwitchComesFirst, At
<1>5. QuietIsAtRest'
  BY DEF Stop, Call, QuietIsAtRest
<1> QED
  BY <1>1, <1>2, <1>3, <1>4, <1>5

\* A restart of a stopped system begins as a start.
LEMMA RestartStoppedStep ==
  ASSUME IInv, RestartStopped
  PROVE  IInv'
<1> USE DEF IInv
<1>1. TypeOK'
  <2>1. command' \in Commands
    BY DEF RestartStopped, Call, Commands
  <2>2. quiet' \in BOOLEAN
    BY DEF RestartStopped, Call
  <2>3. control' \in ControlStates /\ UNCHANGED <<open, interrupted, restarts>>
    BY DEF RestartStopped, engineVars, worldVars, ControlStates, TypeOK
  <2>4. SchedulerTypeOK'
    BY DEF RestartStopped, engineVars, schedVars, TypeOK, SchedulerTypeOK
  <2> QED
    BY <2>1, <2>2, <2>3, <2>4 DEF TypeOK
<1>2. CommandHoldsState'
  BY DEF RestartStopped, Call, CommandHoldsState
<1>3. RequestsEndInTime'
  BY DEF RestartStopped, Resting, engineVars, schedVars, RequestsEndInTime, NoCommand
<1>4. KillIsTripped'
  BY DEF RestartStopped, Call, engineVars, schedVars, KillIsTripped,
     KillSwitchComesFirst, At
<1>5. QuietIsAtRest'
  BY DEF RestartStopped, Call, QuietIsAtRest
<1> QED
  BY <1>1, <1>2, <1>3, <1>4, <1>5

\* The flatten of a stop changes nothing.
LEMMA StopFlattenStep ==
  ASSUME IInv, StopFlatten
  PROVE  IInv'
<1> USE DEF IInv
<1>1. TypeOK'
  BY DEF StopFlatten, GoTo, Flatten, schedVars, worldVars, TypeOK, SchedulerTypeOK,
     Commands
<1>2. CommandHoldsState'
  BY DEF StopFlatten, At, GoTo, CommandHoldsState
<1>3. RequestsEndInTime'
  BY DEF StopFlatten, At, schedVars, RequestsEndInTime
<1>4. KillIsTripped'
  BY DEF StopFlatten, At, GoTo, schedVars, KillIsTripped, KillSwitchComesFirst
<1>5. QuietIsAtRest'
  BY DEF StopFlatten, At, QuietIsAtRest, CommandHoldsState
<1> QED
  BY <1>1, <1>2, <1>3, <1>4, <1>5

\* A stop asks the scheduler to pause.
LEMMA StopPauseStep ==
  ASSUME IInv, StopPause
  PROVE  IInv'
<1> USE DEF IInv
<1>1. TypeOK'
  BY DEF StopPause, GoTo, RequestPause, Request, schedVars, worldVars, TypeOK,
     SchedulerTypeOK, SystemStates, Commands
<1>2. CommandHoldsState'
  BY DEF StopPause, At, GoTo, CommandHoldsState
<1>3. RequestsEndInTime'
  BY DEF StopPause, At, GoTo, RequestsEndInTime
<1>4. KillIsTripped'
  BY DEF StopPause, At, GoTo, RequestPause, Request, schedVars, KillIsTripped,
     KillSwitchComesFirst
<1>5. QuietIsAtRest'
  BY DEF StopPause, At, QuietIsAtRest, CommandHoldsState
<1> QED
  BY <1>1, <1>2, <1>3, <1>4, <1>5

\* A stop ends in STOPPED, or goes on as a start.
LEMMA StopFinishStep ==
  ASSUME IInv, StopFinish
  PROVE  IInv'
<1> USE DEF IInv
<1>1. TypeOK'
  BY DEF StopFinish, engineVars, schedVars, worldVars, TypeOK, SchedulerTypeOK,
     ControlStates, NoCommand, Commands
<1>2. CommandHoldsState'
  BY DEF StopFinish, CommandHoldsState, Resting, NoCommand, BetweenStates
<1>3. RequestsEndInTime'
  BY DEF StopFinish, engineVars, schedVars, RequestsEndInTime
<1>4. KillIsTripped'
  BY DEF StopFinish, At, engineVars, schedVars, KillIsTripped, KillSwitchComesFirst,
     NoCommand
<1>5. QuietIsAtRest'
  BY DEF StopFinish, At, QuietIsAtRest, CommandHoldsState
<1> QED
  BY <1>1, <1>2, <1>3, <1>4, <1>5

\* The start of a restart moves to STARTING.
LEMMA RestartStartStep ==
  ASSUME IInv, RestartStart
  PROVE  IInv'
<1> USE DEF IInv
<1>1. TypeOK'
  BY DEF RestartStart, GoTo, engineVars, schedVars, worldVars, TypeOK, SchedulerTypeOK,
     ControlStates, Commands
<1>2. CommandHoldsState'
  BY DEF RestartStart, At, GoTo, CommandHoldsState
<1>3. RequestsEndInTime'
  BY DEF RestartStart, At, engineVars, schedVars, RequestsEndInTime
<1>4. KillIsTripped'
  BY DEF RestartStart, At, GoTo, engineVars, schedVars, KillIsTripped,
     KillSwitchComesFirst
<1>5. QuietIsAtRest'
  BY DEF RestartStart, At, QuietIsAtRest, CommandHoldsState
<1> QED
  BY <1>1, <1>2, <1>3, <1>4, <1>5

\* A pause takes the lock and moves to PAUSING.
LEMMA PauseStep ==
  ASSUME IInv, Pause
  PROVE  IInv'
<1> USE DEF IInv
<1>1. TypeOK'
  <2>1. command' \in Commands
    BY DEF Pause, Call, Commands
  <2>2. quiet' \in BOOLEAN
    BY DEF Pause, Call
  <2>3. control' \in ControlStates /\ UNCHANGED <<open, interrupted, restarts>>
    BY DEF Pause, engineVars, worldVars, ControlStates, TypeOK
  <2>4. SchedulerTypeOK'
    BY DEF Pause, engineVars, schedVars, TypeOK, SchedulerTypeOK
  <2> QED
    BY <2>1, <2>2, <2>3, <2>4 DEF TypeOK
<1>2. CommandHoldsState'
  BY DEF Pause, Call, CommandHoldsState
<1>3. RequestsEndInTime'
  BY DEF Pause, Resting, engineVars, schedVars, RequestsEndInTime, NoCommand
<1>4. KillIsTripped'
  BY DEF Pause, Call, engineVars, schedVars, KillIsTripped, KillSwitchComesFirst, At
<1>5. QuietIsAtRest'
  BY DEF Pause, Call, QuietIsAtRest
<1> QED
  BY <1>1, <1>2, <1>3, <1>4, <1>5

\* A pause asks the scheduler to pause.
LEMMA PauseEngineStep ==
  ASSUME IInv, PauseEngine
  PROVE  IInv'
<1> USE DEF IInv
<1>1. TypeOK'
  BY DEF PauseEngine, GoTo, RequestPause, Request, schedVars, worldVars, TypeOK,
     SchedulerTypeOK, SystemStates, Commands
<1>2. CommandHoldsState'
  BY DEF PauseEngine, At, GoTo, CommandHoldsState
<1>3. RequestsEndInTime'
  BY DEF PauseEngine, At, GoTo, RequestsEndInTime
<1>4. KillIsTripped'
  BY DEF PauseEngine, At, GoTo, RequestPause, Request, schedVars, KillIsTripped,
     KillSwitchComesFirst
<1>5. QuietIsAtRest'
  BY DEF PauseEngine, At, QuietIsAtRest, CommandHoldsState
<1> QED
  BY <1>1, <1>2, <1>3, <1>4, <1>5

\* A pause ends in PAUSED; only a scheduler at rest makes it quiet.
LEMMA PauseFinishStep ==
  ASSUME IInv, PauseFinish
  PROVE  IInv'
<1> USE DEF IInv
<1>1. TypeOK'
  BY DEF PauseFinish, Return, engineVars, schedVars, worldVars, TypeOK, SchedulerTypeOK,
     ControlStates, NoCommand, Commands
<1>2. CommandHoldsState'
  BY DEF PauseFinish, Return, CommandHoldsState, Resting, NoCommand, BetweenStates
<1>3. RequestsEndInTime'
  BY DEF PauseFinish, engineVars, schedVars, RequestsEndInTime
<1>4. KillIsTripped'
  BY DEF PauseFinish, At, Return, engineVars, schedVars, KillIsTripped,
     KillSwitchComesFirst, NoCommand
<1>5. QuietIsAtRest'
  BY DEF PauseFinish, Return, engineVars, schedVars, TypeOK, QuietIsAtRest, Resting
<1> QED
  BY <1>1, <1>2, <1>3, <1>4, <1>5

\* A resume takes the lock and leaves the state alone.
LEMMA ResumeStep ==
  ASSUME IInv, Resume
  PROVE  IInv'
<1> USE DEF IInv
<1>1. TypeOK'
  <2>1. command' \in Commands
    BY DEF Resume, Call, Commands
  <2>2. quiet' \in BOOLEAN
    BY DEF Resume, Call
  <2>3. control' \in ControlStates /\ UNCHANGED <<open, interrupted, restarts>>
    BY DEF Resume, engineVars, worldVars, ControlStates, TypeOK
  <2>4. SchedulerTypeOK'
    BY DEF Resume, engineVars, schedVars, TypeOK, SchedulerTypeOK
  <2> QED
    BY <2>1, <2>2, <2>3, <2>4 DEF TypeOK
<1>2. CommandHoldsState'
  BY DEF Resume, Call, Resting, worldVars, CommandHoldsState, NoCommand
<1>3. RequestsEndInTime'
  BY DEF Resume, Resting, engineVars, schedVars, RequestsEndInTime, NoCommand
<1>4. KillIsTripped'
  BY DEF Resume, Call, engineVars, schedVars, KillIsTripped, KillSwitchComesFirst, At
<1>5. QuietIsAtRest'
  BY DEF Resume, Call, QuietIsAtRest
<1> QED
  BY <1>1, <1>2, <1>3, <1>4, <1>5

\* A resume asks the scheduler to resume.
LEMMA ResumeEngineStep ==
  ASSUME IInv, ResumeEngine
  PROVE  IInv'
<1> USE DEF IInv
<1>1. TypeOK'
  BY DEF ResumeEngine, GoTo, RequestResume, Request, schedVars, worldVars, TypeOK,
     SchedulerTypeOK, SystemStates, Commands
<1>2. CommandHoldsState'
  BY DEF ResumeEngine, At, GoTo, worldVars, CommandHoldsState
<1>3. RequestsEndInTime'
  BY DEF ResumeEngine, At, GoTo, RequestsEndInTime
<1>4. KillIsTripped'
  BY DEF ResumeEngine, At, GoTo, RequestResume, Request, schedVars, KillIsTripped,
     KillSwitchComesFirst
<1>5. QuietIsAtRest'
  BY DEF ResumeEngine, At, QuietIsAtRest, Resting, NoCommand
<1> QED
  BY <1>1, <1>2, <1>3, <1>4, <1>5

\* A resume ends in RUNNING, or raises and changes nothing.
LEMMA ResumeFinishStep ==
  ASSUME IInv, ResumeFinish
  PROVE  IInv'
<1> USE DEF IInv
<1>1. TypeOK'
  BY DEF ResumeFinish, Return, engineVars, schedVars, worldVars, TypeOK,
     SchedulerTypeOK, ControlStates, NoCommand, Commands
<1>2. CommandHoldsState'
  BY DEF ResumeFinish, At, Return, worldVars, CommandHoldsState, Resting, NoCommand,
     BetweenStates
<1>3. RequestsEndInTime'
  BY DEF ResumeFinish, engineVars, schedVars, RequestsEndInTime
<1>4. KillIsTripped'
  BY DEF ResumeFinish, At, Return, engineVars, schedVars, KillIsTripped,
     KillSwitchComesFirst, NoCommand
<1>5. QuietIsAtRest'
  BY DEF ResumeFinish, At, QuietIsAtRest, Resting, NoCommand
<1> QED
  BY <1>1, <1>2, <1>3, <1>4, <1>5

\* An emergency stop trips the kill switch first.
LEMMA EmergencyStopStep ==
  ASSUME IInv, EmergencyStop
  PROVE  IInv'
<1> USE DEF IInv
<1>1. TypeOK'
  <2>1. command' \in Commands
    BY DEF EmergencyStop, Call, Commands
  <2>2. quiet' \in BOOLEAN
    BY DEF EmergencyStop, Call
  <2>3. control' \in ControlStates /\ UNCHANGED <<open, interrupted, restarts>>
    BY DEF EmergencyStop, worldVars, ControlStates, TypeOK
  <2>4. SchedulerTypeOK'
    BY DEF EmergencyStop, ActivateKillSwitch, TypeOK, SchedulerTypeOK
  <2> QED
    BY <2>1, <2>2, <2>3, <2>4 DEF TypeOK
<1>2. CommandHoldsState'
  BY DEF EmergencyStop, Call, Resting, worldVars, CommandHoldsState, NoCommand
<1>3. RequestsEndInTime'
  BY DEF EmergencyStop, Resting, ActivateKillSwitch, RequestsEndInTime, NoCommand
<1>4. KillIsTripped'
  BY DEF EmergencyStop, ActivateKillSwitch, KillIsTripped, KillSwitchComesFirst
<1>5. QuietIsAtRest'
  BY DEF EmergencyStop, Call, QuietIsAtRest
<1> QED
  BY <1>1, <1>2, <1>3, <1>4, <1>5

\* It then asks for KILL_SWITCH, with the kill switch active.
LEMMA EmergencyHaltStep ==
  ASSUME IInv, EmergencyHalt
  PROVE  IInv'
<1> USE DEF IInv
<1>1. TypeOK'
  BY DEF EmergencyHalt, GoTo, Request, worldVars, TypeOK, SchedulerTypeOK, SystemStates,
     Commands
<1>2. CommandHoldsState'
  BY DEF EmergencyHalt, At, GoTo, worldVars, CommandHoldsState
<1>3. RequestsEndInTime'
  BY DEF EmergencyHalt, At, GoTo, RequestsEndInTime
<1>4. KillIsTripped'
  BY DEF EmergencyHalt, Request, KillIsTripped, KillSwitchComesFirst
<1>5. QuietIsAtRest'
  BY DEF EmergencyHalt, At, QuietIsAtRest, Resting, NoCommand
<1> QED
  BY <1>1, <1>2, <1>3, <1>4, <1>5

\* It ends in EMERGENCY_STOP, which every state between two others allows.
LEMMA EmergencyFinishStep ==
  ASSUME IInv, EmergencyFinish
  PROVE  IInv'
<1> USE DEF IInv
<1>1. TypeOK'
  BY DEF EmergencyFinish, Return, engineVars, schedVars, worldVars, TypeOK,
     SchedulerTypeOK, ControlStates, NoCommand, Commands
<1>2. CommandHoldsState'
  BY DEF EmergencyFinish, Return, Accepts, CommandHoldsState, Resting, NoCommand,
     ControlTransitions, ControlStates, BetweenStates
<1>3. RequestsEndInTime'
  BY DEF EmergencyFinish, engineVars, schedVars, RequestsEndInTime
<1>4. KillIsTripped'
  BY DEF EmergencyFinish, engineVars, schedVars, KillIsTripped, KillSwitchComesFirst
<1>5. QuietIsAtRest'
  BY DEF EmergencyFinish, At, QuietIsAtRest, Resting, NoCommand
<1> QED
  BY <1>1, <1>2, <1>3, <1>4, <1>5

\* A flatten takes the lock.
LEMMA FlattenCommandStep ==
  ASSUME IInv, FlattenCommand
  PROVE  IInv'
<1> USE DEF IInv
<1>1. TypeOK'
  <2>1. command' \in Commands
    BY DEF FlattenCommand, Call, Commands
  <2>2. quiet' \in BOOLEAN
    BY DEF FlattenCommand, Call
  <2>3. control' \in ControlStates /\ UNCHANGED <<open, interrupted, restarts>>
    BY DEF FlattenCommand, Flatten, worldVars, ControlStates, TypeOK
  <2>4. SchedulerTypeOK'
    BY DEF FlattenCommand, schedVars, TypeOK, SchedulerTypeOK
  <2> QED
    BY <2>1, <2>2, <2>3, <2>4 DEF TypeOK
<1>2. CommandHoldsState'
  BY DEF FlattenCommand, Call, Resting, worldVars, CommandHoldsState, NoCommand
<1>3. RequestsEndInTime'
  BY DEF FlattenCommand, Resting, schedVars, RequestsEndInTime, NoCommand
<1>4. KillIsTripped'
  BY DEF FlattenCommand, Call, schedVars, KillIsTripped, KillSwitchComesFirst, At
<1>5. QuietIsAtRest'
  BY DEF FlattenCommand, Call, QuietIsAtRest
<1> QED
  BY <1>1, <1>2, <1>3, <1>4, <1>5

\* A flatten returns.
LEMMA FlattenReturnStep ==
  ASSUME IInv, FlattenReturn
  PROVE  IInv'
<1> USE DEF IInv
<1>1. TypeOK'
  BY DEF FlattenReturn, Return, engineVars, schedVars, worldVars, TypeOK,
     SchedulerTypeOK, NoCommand, Commands
<1>2. CommandHoldsState'
  BY DEF FlattenReturn, At, Return, worldVars, CommandHoldsState, Resting, NoCommand
<1>3. RequestsEndInTime'
  BY DEF FlattenReturn, At, engineVars, schedVars, RequestsEndInTime
<1>4. KillIsTripped'
  BY DEF FlattenReturn, At, Return, engineVars, schedVars, KillIsTripped,
     KillSwitchComesFirst, NoCommand
<1>5. QuietIsAtRest'
  BY DEF FlattenReturn, Return, engineVars, schedVars, QuietIsAtRest, Resting
<1> QED
  BY <1>1, <1>2, <1>3, <1>4, <1>5

\* A requested transition is written; no pause is quiet while one is pending.
LEMMA EngineWritesStep ==
  ASSUME IInv, EngineWrites
  PROVE  IInv'
<1> USE DEF IInv
<1>1. TypeOK'
  BY DEF EngineWrites, WritePending, worldVars, TypeOK, SchedulerTypeOK
<1>2. CommandHoldsState'
  BY DEF EngineWrites, worldVars, CommandHoldsState, Resting
<1>3. RequestsEndInTime'
  BY DEF EngineWrites, WritePending, RequestsEndInTime
<1>4. KillIsTripped'
  BY DEF EngineWrites, WritePending, KillIsTripped, KillSwitchComesFirst, At
<1>5. QuietIsAtRest'
  BY DEF EngineWrites, WritePending, QuietIsAtRest, Resting, NoCommand,
     RequestsEndInTime
<1> QED
  BY <1>1, <1>2, <1>3, <1>4, <1>5

\* A quiet scheduler starts no tick.
LEMMA TickBeginStep ==
  ASSUME IInv, TickBegin, UNCHANGED <<control, command, open, quiet, worldVars>>
  PROVE  IInv'
<1> USE DEF IInv
<1>1. TypeOK'
  BY DEF TickBegin, TypeOK, SchedulerTypeOK, worldVars
<1>2. CommandHoldsState'
  BY DEF CommandHoldsState, Resting, worldVars
<1>3. RequestsEndInTime'
  BY DEF TickBegin, RequestsEndInTime, worldVars
<1>4. KillIsTripped'
  BY DEF TickBegin, KillIsTripped, KillSwitchComesFirst, At, worldVars
<1>5. QuietIsAtRest'
  BY DEF TickBegin, CanScan, QuietIsAtRest, worldVars
<1> QED
  BY <1>1, <1>2, <1>3, <1>4, <1>5

\* A tick validates its transition.
LEMMA TickValidateStep ==
  ASSUME IInv, TickValidate, UNCHANGED <<control, command, open, quiet, worldVars>>
  PROVE  IInv'
<1> USE DEF IInv
<1>1. TypeOK'
  BY DEF TickValidate, TypeOK, SchedulerTypeOK, worldVars
<1>2. CommandHoldsState'
  BY DEF CommandHoldsState, Resting, worldVars
<1>3. RequestsEndInTime'
  BY DEF TickValidate, RequestsEndInTime, worldVars
<1>4. KillIsTripped'
  BY DEF TickValidate, KillIsTripped, KillSwitchComesFirst, At, worldVars
<1>5. QuietIsAtRest'
  BY DEF TickValidate, QuietIsAtRest, worldVars
<1> QED
  BY <1>1, <1>2, <1>3, <1>4, <1>5

\* A tick writes SCANNING.
LEMMA TickWriteStep ==
  ASSUME IInv, TickWrite, UNCHANGED <<control, command, open, quiet, worldVars>>
  PROVE  IInv'
<1> USE DEF IInv
<1>1. TypeOK'
  BY DEF TickWrite, TypeOK, SchedulerTypeOK, SystemStates, worldVars
<1>2. CommandHoldsState'
  BY DEF CommandHoldsState, Resting, worldVars
<1>3. RequestsEndInTime'
  BY DEF TickWrite, RequestsEndInTime, worldVars
<1>4. KillIsTripped'
  BY DEF TickWrite, KillIsTripped, KillSwitchComesFirst, At, worldVars
<1>5. QuietIsAtRest'
  BY DEF TickWrite, QuietIsAtRest, worldVars
<1> QED
  BY <1>1, <1>2, <1>3, <1>4, <1>5

\* A drawdown trips the kill switch first.
LEMMA DrawdownTripsStep ==
  ASSUME IInv, DrawdownTrips, UNCHANGED <<control, command, open, quiet, worldVars>>
  PROVE  IInv'
<1> USE DEF IInv
<1>1. TypeOK'
  BY DEF DrawdownTrips, TypeOK, SchedulerTypeOK, worldVars
<1>2. CommandHoldsState'
  BY DEF CommandHoldsState, Resting, worldVars
<1>3. RequestsEndInTime'
  BY DEF DrawdownTrips, RequestsEndInTime, worldVars
<1>4. KillIsTripped'
  BY DEF DrawdownTrips, KillIsTripped, KillSwitchComesFirst, worldVars
<1>5. QuietIsAtRest'
  BY DEF DrawdownTrips, QuietIsAtRest, worldVars
<1> QED
  BY <1>1, <1>2, <1>3, <1>4, <1>5

\* The check of the scheduler's transition to KILL_SWITCH.
LEMMA DrawdownHaltsStep ==
  ASSUME IInv, DrawdownHalts, UNCHANGED <<control, command, open, quiet, worldVars>>
  PROVE  IInv'
<1> USE DEF IInv
<1>1. TypeOK'
  BY DEF DrawdownHalts, TypeOK, SchedulerTypeOK, SystemStates, worldVars
<1>2. CommandHoldsState'
  BY DEF CommandHoldsState, Resting, worldVars
<1>3. RequestsEndInTime'
  BY DEF DrawdownHalts, RequestsEndInTime, worldVars
<1>4. KillIsTripped'
  BY DEF DrawdownHalts, KillIsTripped, KillSwitchComesFirst, worldVars
<1>5. QuietIsAtRest'
  BY DEF DrawdownHalts, QuietIsAtRest, worldVars
<1> QED
  BY <1>1, <1>2, <1>3, <1>4, <1>5

\* ... and its write.
LEMMA DrawdownWritesStep ==
  ASSUME IInv, DrawdownWrites, UNCHANGED <<control, command, open, quiet, worldVars>>
  PROVE  IInv'
<1> USE DEF IInv
<1>1. TypeOK'
  BY DEF DrawdownWrites, TypeOK, SchedulerTypeOK, SystemStates, worldVars
<1>2. CommandHoldsState'
  BY DEF CommandHoldsState, Resting, worldVars
<1>3. RequestsEndInTime'
  BY DEF DrawdownWrites, RequestsEndInTime, worldVars
<1>4. KillIsTripped'
  BY DEF DrawdownWrites, KillIsTripped, KillSwitchComesFirst, worldVars
<1>5. QuietIsAtRest'
  BY DEF DrawdownWrites, QuietIsAtRest, worldVars
<1> QED
  BY <1>1, <1>2, <1>3, <1>4, <1>5

\* A scan succeeds.
LEMMA ScanSucceedsStep ==
  ASSUME IInv, ScanSucceeds, UNCHANGED <<control, command, open, quiet, worldVars>>
  PROVE  IInv'
<1> USE DEF IInv
<1>1. TypeOK'
  <2>1. failures' \in 0..MaxConsecutiveFailures
    BY FailuresAreCounted DEF ScanSucceeds
  <2>2. running' \in BOOLEAN
    BY DEF ScanSucceeds
  <2>3. tick' = "idle" /\ UNCHANGED <<sched, pending, kill>>
    BY DEF ScanSucceeds
  <2> QED
    BY <2>1, <2>2, <2>3 DEF TypeOK, SchedulerTypeOK, worldVars
<1>2. CommandHoldsState'
  BY DEF CommandHoldsState, Resting, worldVars
<1>3. RequestsEndInTime'
  BY DEF ScanSucceeds, RequestsEndInTime, worldVars
<1>4. KillIsTripped'
  BY DEF ScanSucceeds, KillIsTripped, KillSwitchComesFirst, At, worldVars
<1>5. QuietIsAtRest'
  BY DEF ScanSucceeds, QuietIsAtRest, worldVars
<1> QED
  BY <1>1, <1>2, <1>3, <1>4, <1>5

\* A scan fails: the count stays within its limit.
LEMMA ScanFailsStep ==
  ASSUME IInv, ScanFails, UNCHANGED <<control, command, open, quiet, worldVars>>
  PROVE  IInv'
<1> USE DEF IInv
<1>1. TypeOK'
  <2>1. failures' \in 0..MaxConsecutiveFailures
    BY FailuresAreCounted DEF ScanFails, TypeOK, SchedulerTypeOK
  <2>2. running' \in BOOLEAN
    BY DEF ScanFails, TypeOK, SchedulerTypeOK
  <2>3. tick' \in {"idle", "failed"} /\ UNCHANGED <<sched, pending, kill>>
    BY DEF ScanFails
  <2> QED
    BY <2>1, <2>2, <2>3 DEF TypeOK, SchedulerTypeOK, worldVars
<1>2. CommandHoldsState'
  BY DEF CommandHoldsState, Resting, worldVars
<1>3. RequestsEndInTime'
  BY DEF ScanFails, RequestsEndInTime, worldVars
<1>4. KillIsTripped'
  BY DEF ScanFails, KillIsTripped, KillSwitchComesFirst, At, worldVars
<1>5. QuietIsAtRest'
  BY DEF ScanFails, QuietIsAtRest, worldVars
<1> QED
  BY <1>1, <1>2, <1>3, <1>4, <1>5

\* The failure limit pauses the scheduler.
LEMMA FailurePausesStep ==
  ASSUME IInv, FailurePauses, UNCHANGED <<control, command, open, quiet, worldVars>>
  PROVE  IInv'
<1> USE DEF IInv
<1>1. TypeOK'
  <2>1. running' \in BOOLEAN /\ sched' \in SystemStates
    BY DEF FailurePauses, SystemStates
  <2>2. tick' = "idle" /\ UNCHANGED <<failures, pending, kill>>
    BY DEF FailurePauses
  <2> QED
    BY <2>1, <2>2 DEF TypeOK, SchedulerTypeOK, worldVars
<1>2. CommandHoldsState'
  BY DEF CommandHoldsState, Resting, worldVars
<1>3. RequestsEndInTime'
  BY DEF FailurePauses, RequestsEndInTime, worldVars
<1>4. KillIsTripped'
  BY DEF FailurePauses, KillIsTripped, KillSwitchComesFirst, At, worldVars
<1>5. QuietIsAtRest'
  BY DEF FailurePauses, QuietIsAtRest, worldVars
<1> QED
  BY <1>1, <1>2, <1>3, <1>4, <1>5

\* A scan trades.
LEMMA ScanTradesStep ==
  ASSUME IInv, ScanTrades
  PROVE  IInv'
<1> USE DEF IInv
<1>1. TypeOK'
  <2>1. open' \in BOOLEAN
    BY DEF ScanTrades
  <2>2. UNCHANGED <<schedVars, control, command, quiet, worldVars>>
    BY DEF ScanTrades
  <2> QED
    BY <2>1, <2>2 DEF TypeOK, SchedulerTypeOK, schedVars, worldVars
<1>2. CommandHoldsState'
  BY DEF ScanTrades, worldVars, CommandHoldsState, Resting
<1>3. RequestsEndInTime'
  BY DEF ScanTrades, schedVars, RequestsEndInTime
<1>4. KillIsTripped'
  BY DEF ScanTrades, schedVars, KillIsTripped, KillSwitchComesFirst, At
<1>5. QuietIsAtRest'
  BY DEF ScanTrades, QuietIsAtRest
<1> QED
  BY <1>1, <1>2, <1>3, <1>4, <1>5

\* The scheduler shuts down.
LEMMA ShutDownStep ==
  ASSUME IInv, ShutDown
  PROVE  IInv'
<1> USE DEF IInv
<1>1. TypeOK'
  BY DEF ShutDown, Shutdown, worldVars, TypeOK, SchedulerTypeOK, SystemStates
<1>2. CommandHoldsState'
  BY DEF ShutDown, worldVars, CommandHoldsState, Resting
<1>3. RequestsEndInTime'
  BY DEF ShutDown, Shutdown, RequestsEndInTime
<1>4. KillIsTripped'
  BY DEF ShutDown, Shutdown, KillIsTripped, KillSwitchComesFirst, At
<1>5. QuietIsAtRest'
  BY DEF ShutDown, Shutdown, QuietIsAtRest, Resting
<1> QED
  BY <1>1, <1>2, <1>3, <1>4, <1>5

\* Zenon needs to be told that a membership is TRUE or FALSE.
LEMMA MembershipIsBoolean ==
  ASSUME NEW x, NEW S
  PROVE  (x \in S) \in BOOLEAN
OBVIOUS

\* A new process loads the control state, and starts the engine afresh.
LEMMA RestartStep ==
  ASSUME IInv, Restart
  PROVE  IInv'
<1> USE DEF IInv
<1>1. TypeOK'
  <2>1. command' \in Commands /\ control' = control
    BY DEF Restart, Return, NoCommand, Commands
  <2>2. interrupted' \in BOOLEAN /\ quiet' \in BOOLEAN /\ open' \in BOOLEAN
    <3>1. interrupted' \in BOOLEAN
      <4>1. interrupted' = (control \in BetweenStates)
        BY DEF Restart
      <4>2. (control \in BetweenStates) \in BOOLEAN
        BY MembershipIsBoolean, Zenon
      <4> QED
        BY <4>1, <4>2, Zenon
    <3>2. quiet' \in BOOLEAN /\ open' \in BOOLEAN
      BY DEF Restart
    <3> QED
      BY <3>1, <3>2
  <2>3. restarts < MaxRestarts /\ restarts' = restarts + 1
    BY DEF Restart
  <2>4. restarts' \in 0..MaxRestarts
    BY <2>3, RestartsAreCounted DEF TypeOK
  <2>5. SchedulerTypeOK'
    <3>1. failures' \in 0..MaxConsecutiveFailures
      BY FailuresAreCounted DEF Restart, SchedulerStarted
    <3>2. running' \in BOOLEAN /\ kill' \in BOOLEAN
      BY DEF Restart, SchedulerStarted
    <3>3. sched' = "DATA_CONNECTING" /\ tick' = "idle" /\ pending' = "none"
      BY DEF Restart, SchedulerStarted
    <3> QED
      BY <3>1, <3>2, <3>3 DEF SchedulerTypeOK, SystemStates
  <2> QED
    BY <2>1, <2>2, <2>4, <2>5 DEF TypeOK
<1>2. CommandHoldsState'
  <2>1. command' = NoCommand /\ control' = control
    BY DEF Restart, Return
  <2>2. interrupted' = (control \in BetweenStates)
    BY DEF Restart
  <2> QED
    BY <2>1, <2>2 DEF CommandHoldsState, Resting, NoCommand
<1>3. RequestsEndInTime'
  BY DEF Restart, SchedulerStarted, RequestsEndInTime
<1>4. KillIsTripped'
  BY DEF Restart, SchedulerStarted, Return, KillIsTripped, KillSwitchComesFirst, At,
     NoCommand
<1>5. QuietIsAtRest'
  BY DEF Restart, QuietIsAtRest
<1> QED
  BY <1>1, <1>2, <1>3, <1>4, <1>5
-----------------------------------------------------------------------------
(* The inductive invariant and what follows from it.                       *)

\* IInv holds in the first process, stopped, before any command.
LEMMA InitIInv == Init => IInv
<1> SUFFICES ASSUME Init PROVE IInv
  OBVIOUS
<1> USE DEF Init
<1>1. SchedulerTypeOK
  <2>1. failures \in 0..MaxConsecutiveFailures
    BY FailuresAreCounted
  <2>2. running \in BOOLEAN /\ kill \in BOOLEAN
    OBVIOUS
  <2>3. sched \in SystemStates /\ tick = "idle" /\ pending = "none"
    BY DEF SystemStates
  <2> QED
    BY <2>1, <2>2, <2>3 DEF SchedulerTypeOK
<1>2. TypeOK
  <2>1. restarts \in 0..MaxRestarts
    BY RestartsAreCounted
  <2>2. interrupted \in BOOLEAN /\ quiet \in BOOLEAN /\ open \in BOOLEAN
    OBVIOUS
  <2>3. control \in ControlStates /\ command \in Commands
    BY DEF ControlStates, Commands, NoCommand
  <2> QED
    BY <1>1, <2>1, <2>2, <2>3 DEF TypeOK
<1>3. CommandHoldsState /\ RequestsEndInTime
  BY DEF CommandHoldsState, RequestsEndInTime, Resting, NoCommand, BetweenStates
<1>4. KillIsTripped /\ QuietIsAtRest
  BY DEF KillIsTripped, KillSwitchComesFirst, At, NoCommand, QuietIsAtRest
<1> QED
  BY <1>2, <1>3, <1>4 DEF IInv

\* A stuttering step preserves it.
LEMMA StutterStep ==
  ASSUME IInv, UNCHANGED vars
  PROVE  IInv'
<1> USE DEF IInv, vars, schedVars
<1>1. TypeOK'
  BY DEF TypeOK, SchedulerTypeOK
<1>2. CommandHoldsState' /\ RequestsEndInTime'
  BY DEF CommandHoldsState, RequestsEndInTime, Resting
<1>3. KillIsTripped' /\ QuietIsAtRest'
  BY DEF KillIsTripped, KillSwitchComesFirst, At, QuietIsAtRest, Resting
<1> QED
  BY <1>1, <1>2, <1>3

\* The inductive step: one case per action.
LEMMA NextIInv == IInv /\ [Next]_vars => IInv'
<1> SUFFICES ASSUME IInv, [Next]_vars PROVE IInv'
  OBVIOUS
<1>1. CASE Issue
  BY <1>1, StartStep, StopStep, RestartStoppedStep, PauseStep, ResumeStep, EmergencyStopStep,
     FlattenCommandStep DEF Issue
<1>2. CASE CommandStep
  BY <1>2, StartPreflightStep, StartFinishStep, StopFlattenStep, StopPauseStep, StopFinishStep,
     RestartStartStep, PauseEngineStep, PauseFinishStep, ResumeEngineStep, ResumeFinishStep,
     EmergencyHaltStep, EmergencyFinishStep, FlattenReturnStep, EngineWritesStep
     DEF CommandStep
<1>3. CASE Scan
  BY <1>3, TickBeginStep, TickValidateStep, TickWriteStep, DrawdownTripsStep,
     DrawdownHaltsStep, DrawdownWritesStep, ScanSucceedsStep, ScanFailsStep,
     FailurePausesStep DEF Scan, ScanStep
<1>4. CASE ScanTrades \/ ShutDown \/ Restart
  BY <1>4, ScanTradesStep, ShutDownStep, RestartStep
<1>5. CASE UNCHANGED vars
  BY <1>5, StutterStep
<1> QED
  BY <1>1, <1>2, <1>3, <1>4, <1>5 DEF Next

\* Every reachable state of the control plane satisfies the inductive invariant.
THEOREM Inductive == Spec => []IInv
BY InitIInv, NextIInv, PTL DEF Spec

\* Type correctness of control state, scheduler and commands.
THEOREM TypeCorrect == Spec => []TypeOK
<1>1. IInv => TypeOK
  BY DEF IInv
<1> QED
  BY <1>1, Inductive, PTL

\* No command of the control plane returns or raises in STARTING, PAUSING or
\* STOPPING; only a process that died there leaves the system there.
THEOREM NoCommandStuck == Spec => []BetweenStatesOnlyInFlight
<1>1. IInv => BetweenStatesOnlyInFlight
  BY DEF IInv, CommandHoldsState, BetweenStatesOnlyInFlight, Resting, NoCommand
<1> QED
  BY <1>1, Inductive, PTL

\* The scheduler never stands in KILL_SWITCH, and no emergency stop is recorded,
\* before the kill switch blocks entries.
THEOREM KillFirst == Spec => []KillSwitchComesFirst
<1>1. IInv => KillSwitchComesFirst
  BY DEF IInv, KillIsTripped
<1> QED
  BY <1>1, Inductive, PTL

\* A pause that took hold between two ticks lasts until the next command.
THEOREM PauseLasts == Spec => []QuietStaysQuiet
<1>1. IInv => QuietStaysQuiet
  BY DEF IInv, QuietIsAtRest, QuietStaysQuiet
<1> QED
  BY <1>1, Inductive, PTL

\* No step leads out of EMERGENCY_STOP, and only an emergency stop out of ERROR.
LEMMA LatchedStep ==
  ASSUME IInv, [Next]_vars
  PROVE  /\ control = "EMERGENCY_STOP" => control' = "EMERGENCY_STOP"
         /\ control = "ERROR" => control' \in {"ERROR", "EMERGENCY_STOP"}
<1> SUFFICES ASSUME control \in {"EMERGENCY_STOP", "ERROR"}
             PROVE  control' = control \/ control' = "EMERGENCY_STOP"
  OBVIOUS
<1>1. command.name \notin {"start", "stop", "pause"}
  BY DEF IInv, CommandHoldsState
<1>2. ~Accepts("STARTING") /\ ~Accepts("STOPPING") /\ ~Accepts("PAUSING") /\ ~Accepts("RUNNING")
  BY DEF Accepts, ControlTransitions, ControlStates
<1>3. CASE Issue
  BY <1>2, <1>3 DEF Issue, Start, Stop, RestartStopped, Pause, Resume, EmergencyStop,
     FlattenCommand
<1>4. CASE CommandStep
  BY <1>1, <1>2, <1>4 DEF CommandStep, At, StartPreflight, StartFinish, StopFlatten, StopPause,
     StopFinish, RestartStart, PauseEngine, PauseFinish, ResumeEngine, ResumeFinish,
     EmergencyHalt, EmergencyFinish, FlattenReturn, EngineWrites
<1>5. CASE Scan \/ ScanTrades \/ ShutDown \/ Restart
  BY <1>5 DEF Scan, ScanTrades, ShutDown, Restart
<1>6. CASE UNCHANGED vars
  BY <1>6 DEF vars
<1> QED
  BY <1>3, <1>4, <1>5, <1>6 DEF Next

\* The latched states of the control plane hold across every command and restart.
THEOREM Latched == Spec => LatchedStatesHold
<1>1. IInv /\ [Next]_vars =>
       [/\ control = "EMERGENCY_STOP" => control' = "EMERGENCY_STOP"
        /\ control = "ERROR" => control' \in {"ERROR", "EMERGENCY_STOP"}]_vars
  BY LatchedStep
<1> QED
  BY <1>1, Inductive, PTL DEF Spec, LatchedStatesHold
===============================================================================
