------------------------------- MODULE Builder --------------------------------
(***************************************************************************)
(* The engineering orchestrator (tools/orch): "run" carries the current    *)
(* task through the stages of pipeline.py on a copy of the engine state    *)
(* that it saves after every stage, while the other commands of the CLI    *)
(* load, change and save the same file, people edit the working tree, and  *)
(* processes die.  The code the task produces is abstracted to the set of  *)
(* checks that have passed on it as it stands.                             *)
(***************************************************************************)
EXTENDS BuilderLock

CONSTANTS Tasks,        \* the entries of QUEUE.md that are not marked done
          HumanTasks,   \* those whose title needs a human's approval
          NoTask,
          MaxAttempts,  \* PipelineConfig: limits of failed attempts, by stage
          MaxSteps,     \* steps of one run (64 in _advance_loop)
          MaxCrashes    \* bound: deaths of a process

ASSUME BuilderConstants ==
  /\ HumanTasks \subseteq Tasks /\ NoTask \notin Tasks
  /\ MaxAttempts \in [{"build", "test", "security", "final"} -> Nat \ {0}]
  /\ MaxSteps \in Nat \ {0} /\ MaxCrashes \in Nat

VARIABLES disk,     \* engine_state.json
          run,      \* run[r]: the run of process r and its copy of the state
          tree,     \* the working tree
          passed,   \* the checks that passed on the code as it stands
          history,  \* what happened, for the properties
          crashes

vars == <<lockVars, disk, run, tree, passed, history, crashes>>

Stages == {"DISCOVER", "PLAN", "IMPLEMENT", "TEST", "SECURITY_REVIEW", "REGRESSION",
           "FINAL_REVIEW", "CHECKPOINT", "COMMIT", "STATE_UPDATE"}

\* The stages that judge the code, and what pipeline.py calls their evidence.
Checks == {"TEST", "SECURITY_REVIEW", "REGRESSION", "FINAL_REVIEW"}
Evidence == {"IMPLEMENT", "TEST", "SECURITY_REVIEW", "REGRESSION"}

\* Counters are compared with their limit only: they stop there.
TaskStates ==
  [id : Tasks \cup {NoTask}, stage : Stages, committed : BOOLEAN, evidence : SUBSET Evidence,
   tries : [DOMAIN MaxAttempts -> Nat], gate : BOOLEAN]

NewTask(t) ==
  [id |-> t, stage |-> "DISCOVER", committed |-> FALSE, evidence |-> {},
   tries |-> [l \in DOMAIN MaxAttempts |-> 0], gate |-> FALSE]

\* A current task other than the one enrolled last is a committed one.
EngineStates ==
  [task : TaskStates, done : SUBSET Tasks, paused : BOOLEAN, blocking : BOOLEAN]

FreshState == [task |-> NewTask(NoTask), done |-> {}, paused |-> FALSE, blocking |-> FALSE]

Phases == {"idle", "stage", "lock", "gated"}
NoRun == [phase |-> "idle", state |-> FreshState, steps |-> 0]

Trees == [code : BOOLEAN, docs : BOOLEAN, foreign : BOOLEAN]
CleanTree == [code |-> FALSE, docs |-> FALSE, foreign |-> FALSE]

Busy == {r \in Runners : run[r].phase # "idle"}
Task(r) == run[r].state.task
AtStage(r, stage) == run[r].phase = "stage" /\ Task(r).stage = stage

Quiet == [overlap |-> FALSE, late |-> FALSE, unchecked |-> FALSE, stopped |-> FALSE]

Init ==
  /\ LockInit
  /\ disk = FreshState /\ run = [r \in Runners |-> NoRun]
  /\ tree = CleanTree /\ passed = {} /\ history = Quiet /\ crashes = 0

-----------------------------------------------------------------------------
(* The loop of run.                                                        *)

\* Mutant of MayRun: a paused engine goes on.
MayRunPaused(s) == ~s.blocking /\ s.task.id # NoTask /\ ~s.task.committed

MayRun(s) == ~s.blocking /\ ~s.paused /\ s.task.id # NoTask /\ ~s.task.committed

\* run loads the state; a blocked, paused or finished engine returns at once.
\* Bound: a behaviour has one overlap of two runs.
StartRun(r) ==
  /\ run[r].phase = "idle" /\ MayRun(disk) /\ disk.task.id \notin HumanTasks
  /\ Busy # {} => ~history.overlap
  /\ run' = [run EXCEPT ![r] = [phase |-> "stage", state |-> disk, steps |-> 0]]
  /\ history' = [history EXCEPT !.overlap = @ \/ Busy # {}]
  /\ UNCHANGED <<lockVars, disk, tree, passed, crashes>>

Save(s) == disk' = s

\* Mutant of LoopEnds: the loop is bounded by the stages only.
LoopOnStages(r, t) == t.committed \/ t.stage = Task(r).stage

\* _advance_loop stops at a committed task, a stage that stays, or its bound.
LoopEnds(r, t) == t.committed \/ t.stage = Task(r).stage \/ run[r].steps + 1 = MaxSteps

\* Mutant of Counted: a step counts for two.
CountedTwice(n) == n + 2

Counted(n) == IF n < MaxSteps THEN n + 1 ELSE n

\* One stage is done: the state is saved, and the loop goes round or ends.
Advance(r, t) ==
  LET s == [run[r].state EXCEPT
              !.task = t, !.done = IF t.committed THEN @ \cup {t.id} ELSE @] IN
  /\ Save(s)
  /\ run' = [run EXCEPT ![r] =
               IF LoopEnds(r, t) THEN NoRun
               ELSE [phase |-> "stage", state |-> s, steps |-> Counted(run[r].steps)]]

\* _block: the blocker is saved, and written into the tracked SESSION_STATE.md.
Block(r, t) ==
  /\ Save([run[r].state EXCEPT !.task = t, !.blocking = TRUE, !.paused = FALSE])
  /\ run' = [run EXCEPT ![r] = NoRun]
  /\ tree' = [tree EXCEPT !.docs = TRUE]

\* An exception other than Blocked leaves run without a save.
Raise(r) == run' = [run EXCEPT ![r] = NoRun] /\ UNCHANGED disk

Try(t, l) == IF t.tries[l] < MaxAttempts[l] THEN [t EXCEPT !.tries[l] = @ + 1] ELSE t
Exhausted(t, l) == t.tries[l] >= MaxAttempts[l]

\* A failed attempt goes back to IMPLEMENT, or blocks at the limit.
Fail(r, l) ==
  LET t == Try(Task(r), l) IN
  \/ ~Exhausted(t, l) /\ Advance(r, [t EXCEPT !.stage = "IMPLEMENT"]) /\ UNCHANGED tree
  \/ Exhausted(t, l) /\ Block(r, t)

-----------------------------------------------------------------------------
(* The stages.                                                             *)

\* DISCOVER and PLAN do nothing that can fail.
Begin(r) ==
  /\ \/ AtStage(r, "DISCOVER") /\ Advance(r, [Task(r) EXCEPT !.stage = "PLAN"])
     \/ AtStage(r, "PLAN") /\ Advance(r, [Task(r) EXCEPT !.stage = "IMPLEMENT"])
  /\ UNCHANGED <<lockVars, tree, passed, history, crashes>>

\* IMPLEMENT asks for the lock first.
AskForLock(r) ==
  /\ AtStage(r, "IMPLEMENT") /\ ~IsHeld
  /\ MoveTo(r, "asked")
  /\ run' = [run EXCEPT ![r].phase = "lock"]
  /\ UNCHANGED <<file, takenOver, disk, tree, passed, history, crashes>>

Acquire(r) ==
  /\ run[r].phase = "lock" /\ LockStep(r)
  /\ UNCHANGED <<disk, run, tree, passed, history, crashes>>

\* A LockError is no Blocked: the run ends with nothing saved.
LockError(r) ==
  /\ \/ AtStage(r, "IMPLEMENT") /\ IsHeld
     \/ LookRefused(r)
     \/ CreateRefused(r)
  /\ Raise(r) /\ MoveTo(r, "out")
  /\ UNCHANGED <<file, takenOver, tree, passed, history, crashes>>

\* Mutant of ReleaseAfterBuild: only a build that succeeded releases the lock.
ReleaseAfterSuccess(r, ok) ==
  /\ file' = IF ok THEN AfterRelease(r) ELSE file
  /\ MoveTo(r, "out") /\ UNCHANGED takenOver

\* The lock is released however the build ends.
ReleaseAfterBuild(r, ok) ==
  /\ file' = AfterRelease(r)
  /\ MoveTo(r, "out") /\ UNCHANGED takenOver

\* The token in the file is another process's: release raises out of run.
Usurped(r) == file.kind = "held" /\ file.owner # r

\* The builder edits the application files it registers: all checks are void.
Edit == tree' = [tree EXCEPT !.code = TRUE] /\ passed' = {}

Implemented(t) ==
  [Try(t, "build") EXCEPT !.evidence = @ \cup {"IMPLEMENT"}, !.stage = "TEST"]

BuildSucceeds(r) ==
  /\ at[r] = "in" /\ ~Usurped(r)
  /\ Edit /\ ReleaseAfterBuild(r, TRUE)
  /\ Advance(r, Implemented(Task(r)))
  /\ UNCHANGED <<history, crashes>>

\* A build that fails may leave edits behind.
BuildFails(r) ==
  LET t == Try(Task(r), "build") IN
  /\ at[r] = "in" /\ ~Usurped(r)
  /\ ReleaseAfterBuild(r, FALSE)
  /\ \E edited \in BOOLEAN :
       /\ passed' = IF edited THEN {} ELSE passed
       /\ \/ ~Exhausted(t, "build") /\ Advance(r, t)
             /\ tree' = [tree EXCEPT !.code = @ \/ edited]
          \/ Exhausted(t, "build")
             /\ Save([run[r].state EXCEPT !.task = t, !.blocking = TRUE, !.paused = FALSE])
             /\ run' = [run EXCEPT ![r] = NoRun]
             /\ tree' = [tree EXCEPT !.code = @ \/ edited, !.docs = TRUE]
  /\ UNCHANGED <<history, crashes>>

\* The build raises, or the lock was taken over meanwhile: nothing is saved.
BuildRaises(r) ==
  /\ at[r] = "in"
  /\ Edit /\ ReleaseAfterBuild(r, FALSE) /\ Raise(r)
  /\ UNCHANGED <<history, crashes>>

\* Mutant of AfterCheck: a stage whose evidence is in already is not run again.
SkipProven(t, stage) ==
  IF stage = "TEST" /\ "SECURITY_REVIEW" \in t.evidence THEN "REGRESSION"
  ELSE CASE stage = "TEST" -> "SECURITY_REVIEW" [] stage = "SECURITY_REVIEW" -> "REGRESSION"
         [] stage = "REGRESSION" -> "FINAL_REVIEW" [] stage = "FINAL_REVIEW" -> "CHECKPOINT"

AfterCheck(t, stage) ==
  CASE stage = "TEST" -> "SECURITY_REVIEW" [] stage = "SECURITY_REVIEW" -> "REGRESSION"
    [] stage = "REGRESSION" -> "FINAL_REVIEW" [] stage = "FINAL_REVIEW" -> "CHECKPOINT"

\* The limit a check's attempts count against; a regression counts against none.
LimitOf(stage) ==
  CASE stage = "TEST" -> {"test"} [] stage = "SECURITY_REVIEW" -> {"security"}
    [] stage = "FINAL_REVIEW" -> {"final"} [] stage = "REGRESSION" -> {}

MissingEvidence(t) == Evidence \ t.evidence

\* A check passes: every execution counts, and the evidence flag is set.
CheckPasses(r, stage) ==
  LET t == [Task(r) EXCEPT
              !.tries = [l \in DOMAIN MaxAttempts |->
                           IF l \in LimitOf(stage) THEN Try(Task(r), l).tries[l] ELSE @[l]],
              !.evidence = @ \cup (Evidence \cap {stage}),
              !.stage = AfterCheck(Task(r), stage)] IN
  /\ AtStage(r, stage)
  /\ stage = "FINAL_REVIEW" => MissingEvidence(Task(r)) = {}
  /\ passed' = passed \cup {stage}
  /\ Advance(r, t)
  /\ UNCHANGED <<lockVars, tree, history, crashes>>

CheckFails(r, stage) ==
  /\ AtStage(r, stage)
  /\ \/ \E l \in LimitOf(stage) : Fail(r, l)
     \/ /\ LimitOf(stage) = {}
        /\ Advance(r, [Task(r) EXCEPT !.stage = "IMPLEMENT"]) /\ UNCHANGED tree
  /\ UNCHANGED <<lockVars, passed, history, crashes>>

\* The reviewer vetoes the diff as such: no attempt is counted.
SafetyVeto(r) ==
  /\ AtStage(r, "SECURITY_REVIEW") /\ Block(r, Task(r))
  /\ UNCHANGED <<lockVars, passed, history, crashes>>

-----------------------------------------------------------------------------
(* The commit.                                                             *)

\* Mutant of Gate: the tree may hold files that nobody registered.
GateIgnoresForeign(t) == MissingEvidence(t) = {} /\ tree.code

\* _act_verify_commit_gate: all stages executed, the registered files are in the
\* diff, and nothing else is.
Gate(t) == MissingEvidence(t) = {} /\ tree.code /\ ~tree.docs /\ ~tree.foreign

Checkpoint(r) ==
  /\ AtStage(r, "CHECKPOINT")
  /\ \/ /\ Gate(Task(r))
        /\ Advance(r, [Task(r) EXCEPT !.gate = TRUE, !.stage = "COMMIT"])
        /\ UNCHANGED tree
     \/ ~Gate(Task(r)) /\ Block(r, Task(r))
  /\ UNCHANGED <<lockVars, passed, history, crashes>>

\* COMMIT runs the gate again, and writes the session documents into the tree.
PrepareCommit(r) ==
  /\ AtStage(r, "COMMIT")
  /\ \/ /\ Task(r).gate /\ Gate(Task(r))
        /\ run' = [run EXCEPT ![r].phase = "gated"]
        /\ tree' = [tree EXCEPT !.docs = TRUE]
        /\ UNCHANGED disk
     \/ ~(Task(r).gate /\ Gate(Task(r))) /\ Block(r, Task(r))
  /\ UNCHANGED <<lockVars, passed, history, crashes>>

\* git add -A and git commit take whatever is in the tree; the state is saved
\* only afterwards.
Commit(r) ==
  /\ run[r].phase = "gated" /\ Task(r).stage = "COMMIT" /\ tree # CleanTree
  /\ tree' = CleanTree
  /\ history' = [history EXCEPT !.unchecked = @ \/ passed # Checks]
  /\ passed' = {}
  /\ run' = [run EXCEPT ![r].state.task.stage = "STATE_UPDATE"]
  /\ UNCHANGED <<lockVars, disk, crashes>>

\* git refuses, a remote is unknown, or there is nothing to commit: GitOpsError
\* is no Blocked and leaves run.
GitRaises(r) ==
  /\ \/ AtStage(r, "CHECKPOINT") \/ AtStage(r, "COMMIT")
     \/ run[r].phase = "gated" /\ Task(r).stage = "COMMIT"
  /\ Raise(r)
  /\ UNCHANGED <<lockVars, tree, passed, history, crashes>>

\* The commit's checkpoint, then STATE_UPDATE closes the task.
SaveCommit(r) ==
  /\ run[r].phase = "gated" /\ Task(r).stage = "STATE_UPDATE"
  /\ Save(run[r].state)
  /\ run' = [run EXCEPT ![r] =
               IF run[r].steps + 1 = MaxSteps THEN NoRun
               ELSE [run[r] EXCEPT !.phase = "stage", !.steps = Counted(run[r].steps)]]
  /\ UNCHANGED <<lockVars, tree, passed, history, crashes>>

UpdateState(r) ==
  /\ AtStage(r, "STATE_UPDATE")
  /\ Advance(r, [Task(r) EXCEPT !.committed = TRUE])
  /\ UNCHANGED <<lockVars, tree, passed, history, crashes>>

-----------------------------------------------------------------------------
(* The other commands, and the world.                                      *)

Pause ==
  /\ ~disk.paused
  /\ Save([disk EXCEPT !.paused = TRUE])
  /\ history' = [history EXCEPT !.stopped = @ \/ Busy = {}]
  /\ UNCHANGED <<lockVars, run, tree, passed, crashes>>

\* resume lifts a pause; it leaves a blocker standing.
Resume ==
  /\ disk.paused \/ disk.blocking
  /\ Save([disk EXCEPT !.paused = FALSE])
  /\ history' = [history EXCEPT !.stopped = @ /\ disk.blocking]
  /\ UNCHANGED <<lockVars, run, tree, passed, crashes>>

\* A blocker raised by a command: the pause it finds is dropped.
BlockFromCommand ==
  /\ Save([disk EXCEPT !.blocking = TRUE, !.paused = FALSE])
  /\ tree' = [tree EXCEPT !.docs = TRUE]
  /\ history' = [history EXCEPT !.stopped = @ \/ Busy = {}]
  /\ UNCHANGED <<lockVars, run, passed, crashes>>

\* run refuses a task that needs a human; advance refuses one too, and refuses
\* while the current task is not committed.
RefuseTask ==
  /\ \/ MayRun(disk) /\ disk.task.id \in HumanTasks
     \/ disk.task.id # NoTask /\ ~disk.task.committed
     \/ HumanTasks \ disk.done # {} /\ (disk.task.id = NoTask \/ disk.task.committed)
  /\ BlockFromCommand

\* advance enrols the first entry that is not committed, and lifts a blocker.
Enrol ==
  /\ disk.task.id = NoTask \/ disk.task.committed
  /\ \E t \in Tasks \ (disk.done \cup HumanTasks) :
       Save([disk EXCEPT !.task = NewTask(t), !.blocking = FALSE])
  /\ history' = [history EXCEPT !.stopped = @ /\ disk.paused]
  /\ UNCHANGED <<lockVars, run, tree, passed, crashes>>

\* Somebody changes a file the task has not registered.
ForeignEdit ==
  /\ ~tree.foreign
  /\ tree' = [tree EXCEPT !.foreign = TRUE] /\ passed' = {}
  /\ history' = [history EXCEPT
                   !.late = @ \/ \E r \in Runners : run[r].phase = "gated"]
  /\ UNCHANGED <<lockVars, disk, run, crashes>>

\* Somebody commits or withdraws what the task did not register.
TidyUp ==
  /\ tree.foreign \/ tree.docs
  /\ tree' = [tree EXCEPT !.foreign = FALSE, !.docs = FALSE]
  /\ passed' = IF tree.foreign THEN {} ELSE passed
  /\ history' = [history EXCEPT !.late = @ \/ (tree.foreign /\ tree.code)]
  /\ UNCHANGED <<lockVars, disk, run, crashes>>

Crash(r) ==
  /\ crashes < MaxCrashes /\ run[r].phase # "idle"
  /\ Raise(r) /\ MoveTo(r, "out")
  /\ crashes' = crashes + 1
  /\ UNCHANGED <<file, takenOver, tree, passed, history>>

TimePasses == GrowOld /\ UNCHANGED <<disk, run, tree, passed, history, crashes>>

-----------------------------------------------------------------------------

RunStep(r) ==
  \/ Begin(r) \/ AskForLock(r) \/ Acquire(r) \/ LockError(r)
  \/ BuildSucceeds(r) \/ BuildFails(r) \/ BuildRaises(r)
  \/ \E stage \in Checks : CheckPasses(r, stage) \/ CheckFails(r, stage)
  \/ SafetyVeto(r) \/ Checkpoint(r)
  \/ PrepareCommit(r) \/ Commit(r) \/ GitRaises(r) \/ SaveCommit(r) \/ UpdateState(r)

CommandStep == Pause \/ Resume \/ RefuseTask \/ Enrol

WorldStep == ForeignEdit \/ TidyUp \/ TimePasses

Next ==
  \/ \E r \in Runners : StartRun(r) \/ RunStep(r) \/ Crash(r)
  \/ CommandStep
  \/ WorldStep

\* A started process is scheduled by the operating system until it ends.
Fairness == \A r \in Runners : WF_vars(RunStep(r))

Spec == Init /\ [][Next]_vars /\ Fairness

-----------------------------------------------------------------------------

TypeOK ==
  /\ LockTypeOK
  /\ disk \in EngineStates
  /\ run \in [Runners -> [phase : Phases, state : EngineStates, steps : 0..MaxSteps]]
  /\ tree \in Trees /\ passed \subseteq Checks
  /\ history \in [overlap : BOOLEAN, late : BOOLEAN, unchecked : BOOLEAN, stopped : BOOLEAN]
  /\ crashes \in 0..MaxCrashes

\* "A task cannot be approved or COMMITTED unless every required stage genuinely
\* executed" (pipeline.py:53), on the code that is committed: evidence flags are
\* never reset when the task goes back to IMPLEMENT, so the order of the stages
\* alone must see to it.  What the code cannot exclude: two runs at once, an edit
\* by somebody else between the last gate and git add, and one that is gone again
\* by the time of the gate.
CommittedCodePassedAllChecks ==
  history.unchecked => history.overlap \/ history.late

\* A pause or a blocker recorded while no run is under way holds until resume
\* lifts the pause, or the next task is enrolled: no run gets under way.
StopHolds == history.stopped /\ ~history.overlap => Busy = {}

\* The lock file outlives the builder that created it only when a process died.
LockLeaksByCrashOnly ==
  crashes = 0 /\ ~takenOver /\ file.kind # "absent" => at[file.owner] \in {"writing", "in"}

\* Every run ends, however often its checks send the task back: REGRESSION has
\* no limit of its own, and only the bound of _advance_loop ends the loop.
RunsEnd == \A r \in Runners : run[r].phase # "idle" ~> run[r].phase = "idle"
===============================================================================
