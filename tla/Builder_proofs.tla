---------------------------- MODULE Builder_proofs -----------------------------
(***************************************************************************)
(* Proofs about Builder, for any tasks, limits, processes and crashes:     *)
(* BuilderInv is inductive, and the safety properties follow from it.      *)
(***************************************************************************)
EXTENDS Builder, TLAPS

\* The checks that must have passed on the code by the time its task is at a stage.
Required(stage) ==
  CASE stage = "SECURITY_REVIEW" -> {"TEST"}
    [] stage = "REGRESSION" -> {"TEST", "SECURITY_REVIEW"}
    [] stage = "FINAL_REVIEW" -> {"TEST", "SECURITY_REVIEW", "REGRESSION"}
    [] stage \in {"CHECKPOINT", "COMMIT"} -> Checks
    [] OTHER -> {}

\* A run holds the lock in its lock phase only, and a builder that took over nothing
\* owns the file that it wrote or writes.
LockInv ==
  /\ \A r \in Runners : run[r].phase # "lock" => at[r] = "out"
  /\ file.kind # "absent" => file.owner \in Runners
  /\ ~takenOver => \A r \in Runners :
       (at[r] = "in" => OwnsFile(r)) /\ (at[r] = "writing" => file = Torn(r))
  /\ LockLeaksByCrashOnly

StopInv == history.stopped => Busy = {} /\ (disk.paused \/ disk.blocking)

Running == \A r \in Busy : Task(r).id # NoTask /\ ~Task(r).committed

\* A run that is alone has the saved task in hand, or has committed it just now.
InHand(r) ==
  /\ disk.task = Task(r)
  /\ run[r].phase = "lock" => Task(r).stage = "IMPLEMENT"
  /\ run[r].phase = "gated" => Task(r).stage = "COMMIT"
JustCommitted(r) ==
  /\ run[r].phase = "gated" /\ Task(r).stage = "STATE_UPDATE"
  /\ disk.task.id # NoTask /\ ~disk.task.committed /\ ~tree.code

Alone ==
  ~history.overlap =>
    /\ \A r, s \in Busy : r = s
    /\ \A r \in Busy : InHand(r) \/ JustCommitted(r)

\* Without somebody else's edit the code as it stands has passed what its task's stage
\* requires, and a run past the last gate has all of it.
Checked ==
  ~history.overlap /\ ~history.late =>
    /\ tree.code /\ ~tree.foreign => Required(disk.task.stage) \subseteq passed
    /\ \A r \in Busy : run[r].phase = "gated" /\ Task(r).stage = "COMMIT" =>
         ~tree.foreign /\ passed = Checks

BuilderInv ==
  /\ TypeOK /\ LockInv /\ StopInv /\ Running /\ Alone /\ Checked
  /\ CommittedCodePassedAllChecks

RunStates == [phase : Phases, state : EngineStates, steps : 0..MaxSteps]

-----------------------------------------------------------------------------
(* Values.                                                                 *)

\* The resting values have their types.
LEMMA RestingTypes ==
  /\ FreshState \in EngineStates /\ NoRun \in RunStates /\ CleanTree \in Trees
  /\ \A t \in Tasks \cup {NoTask} : NewTask(t) \in TaskStates
  /\ NoRun.phase = "idle" /\ FreshState.task.stage = "DISCOVER"
<1>1. \A t \in Tasks \cup {NoTask} : NewTask(t) \in TaskStates
  BY DEF NewTask, TaskStates, Stages
<1>2. FreshState \in EngineStates /\ FreshState.task.stage = "DISCOVER"
  BY <1>1 DEF FreshState, EngineStates, NewTask
<1>3. NoRun \in RunStates /\ NoRun.phase = "idle"
  BY <1>2, BuilderConstants DEF NoRun, RunStates, Phases
<1>4. CleanTree \in Trees
  BY DEF CleanTree, Trees
<1> QED
  BY <1>1, <1>2, <1>3, <1>4

\* An attempt changes a counter alone.
LEMMA TryChangesTries ==
  ASSUME NEW t \in TaskStates, NEW l \in DOMAIN MaxAttempts
  PROVE  /\ Try(t, l) \in TaskStates
         /\ Try(t, l).id = t.id /\ Try(t, l).stage = t.stage
         /\ Try(t, l).committed = t.committed /\ Try(t, l).evidence = t.evidence
<1>1. t.tries \in [DOMAIN MaxAttempts -> Nat] /\ t.tries[l] + 1 \in Nat
  BY DEF TaskStates
<1>2. [t.tries EXCEPT ![l] = @ + 1] \in [DOMAIN MaxAttempts -> Nat]
  BY <1>1
<1>3. Try(t, l) = t \/ Try(t, l) = [t EXCEPT !.tries = [t.tries EXCEPT ![l] = @ + 1]]
  BY DEF Try
<1> QED
  BY <1>2, <1>3 DEF TaskStates

\* The limits that stages count against.
LEMMA LimitsAreNamed ==
  /\ DOMAIN MaxAttempts = {"build", "test", "security", "final"}
  /\ \A stage \in Checks : LimitOf(stage) \subseteq DOMAIN MaxAttempts
<1>1. DOMAIN MaxAttempts = {"build", "test", "security", "final"}
  BY BuilderConstants
<1> QED
  BY <1>1 DEF LimitOf, Checks

\* Advance saves the task, and the run goes on with it or ends.
LEMMA AdvanceEffect ==
  ASSUME BuilderInv, NEW r \in Runners, NEW t \in TaskStates, t.id \in Tasks,
         Advance(r, t)
  PROVE  /\ disk' \in EngineStates /\ disk'.task = t
         /\ run' \in [Runners -> RunStates]
         /\ \A s \in Runners \ {r} : run'[s] = run[s]
         /\ run'[r].phase \in {"idle", "stage"}
         /\ run'[r].phase = "stage" => run'[r].state.task = t /\ ~t.committed
<1> DEFINE S == [run[r].state EXCEPT
                   !.task = t, !.done = IF t.committed THEN @ \cup {t.id} ELSE @]
           x == IF LoopEnds(r, t) THEN NoRun
                ELSE [phase |-> "stage", state |-> S, steps |-> Counted(run[r].steps)]
<1>1. disk' = S /\ run' = [run EXCEPT ![r] = x]
  BY DEF Advance, Save
<1>2. run \in [Runners -> RunStates]
  BY DEF BuilderInv, TypeOK, RunStates
<1>3. S \in EngineStates /\ S.task = t
  BY <1>2 DEF RunStates, EngineStates
<1>4. Counted(run[r].steps) \in 0..MaxSteps
  BY <1>2, BuilderConstants DEF Counted, RunStates
<1>5. x \in RunStates /\ x.phase \in {"idle", "stage"}
      /\ (x.phase = "stage" => x.state.task = t /\ ~t.committed)
  <2> HIDE DEF S
  <2>1. CASE LoopEnds(r, t)
    BY <2>1, RestingTypes
  <2>2. CASE ~LoopEnds(r, t)
    BY <1>3, <1>4, <2>2 DEF RunStates, Phases, LoopEnds
  <2> QED
    BY <2>1, <2>2
<1> HIDE DEF S, x
<1> QED
  BY <1>1, <1>2, <1>3, <1>5

\* A blocker is saved, and the run ends.
LEMMA SaveBlockEffect ==
  ASSUME BuilderInv, NEW r \in Runners, NEW t \in TaskStates,
         Save([run[r].state EXCEPT !.task = t, !.blocking = TRUE, !.paused = FALSE]),
         run' = [run EXCEPT ![r] = NoRun]
  PROVE  /\ disk' \in EngineStates /\ disk'.task = t
         /\ run' \in [Runners -> RunStates]
         /\ \A s \in Runners \ {r} : run'[s] = run[s]
         /\ run'[r].phase = "idle"
<1>1. run \in [Runners -> RunStates]
  BY DEF BuilderInv, TypeOK, RunStates
<1>2. disk' \in EngineStates /\ disk'.task = t
  BY <1>1 DEF Save, RunStates, EngineStates
<1> QED
  BY <1>1, <1>2, RestingTypes

-----------------------------------------------------------------------------
(* What the steps of a run have in common.                                 *)

\* The lock is as it was, and so are the deaths.
LEMMA LockRests ==
  ASSUME BuilderInv, UNCHANGED <<file, at, takenOver, crashes>>,
         \A s \in Runners : run'[s].phase # "lock" => at[s] = "out"
  PROVE  LockTypeOK' /\ LockInv'
BY DEF BuilderInv, TypeOK, LockTypeOK, LockInv, LockLeaksByCrashOnly, OwnsFile

\* A run saves a task and goes on with it, or ends.
LEMMA Saved ==
  ASSUME BuilderInv, NEW r \in Runners, run[r].phase \in {"stage", "lock"},
         NEW t \in TaskStates, t.id = Task(r).id,
         disk' \in EngineStates, disk'.task = t,
         run' \in [Runners -> RunStates],
         \A s \in Runners \ {r} : run'[s] = run[s],
         run'[r].phase \in {"idle", "stage"},
         run'[r].phase = "stage" => run'[r].state.task = t /\ ~t.committed,
         UNCHANGED <<history, crashes>>, tree' \in Trees, passed' \subseteq Checks,
         LockTypeOK' /\ LockInv',
         (/\ ~history.overlap /\ ~history.late /\ tree'.code /\ ~tree'.foreign
          /\ (tree.code /\ ~tree.foreign => Required(Task(r).stage) \subseteq passed)
          /\ (run[r].phase = "lock" => Task(r).stage = "IMPLEMENT"))
            => Required(t.stage) \subseteq passed'
  PROVE  BuilderInv'
<1>1. r \in Busy /\ Busy' \subseteq Busy
  BY DEF Busy
<1>2. TypeOK'
  BY DEF BuilderInv, TypeOK, RunStates
<1>3. StopInv'
  BY <1>1 DEF BuilderInv, StopInv
<1>4. \A s \in Busy' : (s = r /\ run'[s].phase = "stage" /\ Task(s)' = t) \/ (s # r /\ run'[s] = run[s])
  BY DEF Busy, Task
<1>5. Running'
  BY <1>1, <1>4 DEF BuilderInv, Running, Task
<1>6. ASSUME ~history.overlap
      PROVE  /\ \A s \in Busy' : s = r /\ run'[s].phase = "stage"
             /\ disk.task = Task(r) /\ (run[r].phase = "lock" => Task(r).stage = "IMPLEMENT")
  BY <1>1, <1>4, <1>6 DEF BuilderInv, Alone, InHand, JustCommitted
<1>7. Alone'
  BY <1>4, <1>6 DEF Alone, InHand
<1>8. Checked'
  <2>1. SUFFICES ASSUME ~history.overlap, ~history.late
                 PROVE  /\ tree'.code /\ ~tree'.foreign => Required(disk'.task.stage) \subseteq passed'
                        /\ \A s \in Busy' : run'[s].phase # "gated"
    BY DEF Checked
  <2>2. tree.code /\ ~tree.foreign => Required(Task(r).stage) \subseteq passed
    BY <1>6, <2>1 DEF BuilderInv, Checked
  <2> QED
    BY <1>6, <2>1, <2>2
<1>9. CommittedCodePassedAllChecks'
  BY DEF BuilderInv, CommittedCodePassedAllChecks
<1> QED
  BY <1>2, <1>3, <1>5, <1>7, <1>8, <1>9, LockRests DEF BuilderInv

\* A run ends without saving.
LEMMA Left ==
  ASSUME BuilderInv, NEW r \in Runners, run[r].phase # "idle", Raise(r),
         UNCHANGED history, crashes' \in 0..MaxCrashes,
         tree' \in Trees, passed' \subseteq Checks,
         LockTypeOK' /\ LockInv',
         \/ UNCHANGED <<tree, passed>>
         \/ run[r].phase = "lock"
  PROVE  BuilderInv'
<1>1. /\ disk' = disk /\ run' \in [Runners -> RunStates]
      /\ run'[r].phase = "idle" /\ \A s \in Runners \ {r} : run'[s] = run[s]
  BY RestingTypes DEF Raise, BuilderInv, TypeOK, RunStates
<1>2. r \in Busy /\ Busy' = Busy \ {r}
  BY <1>1 DEF Busy
<1>3. TypeOK'
  BY <1>1 DEF BuilderInv, TypeOK, RunStates
<1>4. StopInv'
  BY <1>2 DEF BuilderInv, StopInv
<1>5. Running'
  BY <1>1, <1>2 DEF BuilderInv, Running, Task, Busy
<1>6. ~history.overlap => Busy' = {}
  BY <1>2 DEF BuilderInv, Alone
<1>7. Alone'
  BY <1>6 DEF Alone
<1>8. Checked'
  <2>1. SUFFICES ASSUME ~history.overlap, ~history.late, tree'.code, ~tree'.foreign
                 PROVE  Required(disk.task.stage) \subseteq passed'
    BY <1>1, <1>6 DEF Checked
  <2>2. CASE UNCHANGED <<tree, passed>>
    BY <2>1, <2>2 DEF BuilderInv, Checked
  <2>3. CASE run[r].phase = "lock"
    <3>1. disk.task.stage = "IMPLEMENT"
      BY <1>2, <2>1, <2>3 DEF BuilderInv, Alone, InHand, JustCommitted
    <3> QED
      BY <3>1 DEF Required
  <2> QED
    BY <2>2, <2>3
<1>9. CommittedCodePassedAllChecks'
  BY DEF BuilderInv, CommittedCodePassedAllChecks
<1> QED
  BY <1>3, <1>4, <1>5, <1>7, <1>8, <1>9 DEF BuilderInv

-----------------------------------------------------------------------------
(* The lock.                                                               *)

\* A step of the lock alone.
LEMMA OnlyLock ==
  ASSUME BuilderInv, LockTypeOK' /\ LockInv', UNCHANGED <<disk, run, tree, passed, history, crashes>>
  PROVE  BuilderInv'
BY DEF BuilderInv, TypeOK, StopInv, Busy, Running, Task, Alone, InHand, JustCommitted, Checked,
       CommittedCodePassedAllChecks

\* A process in the lock's steps is in its lock phase.
LEMMA LockPhase ==
  ASSUME BuilderInv, NEW r \in Runners, at[r] # "out"
  PROVE  run[r].phase = "lock"
BY DEF BuilderInv, LockInv

\* The steps of acquire: a file that is created belongs to its creator until somebody
\* removes it as stale.
LEMMA AcquireStep ==
  ASSUME BuilderInv, NEW r \in Runners, Acquire(r)
  PROVE  BuilderInv'
<1>1. /\ run[r].phase = "lock" /\ LockStep(r)
      /\ UNCHANGED <<disk, run, tree, passed, history, crashes>>
  BY DEF Acquire
<1>2. file \in LockFiles /\ at \in [Runners -> Points] /\ takenOver \in BOOLEAN
  BY DEF BuilderInv, TypeOK, LockTypeOK
<1>3. LockTypeOK' /\ LockInv'
  <2>1. CASE Look(r)
    <3>1. /\ UNCHANGED <<file, takenOver>> /\ at[r] = "asked"
          /\ at' \in {[at EXCEPT ![r] = "creating"], [at EXCEPT ![r] = "removing"]}
      BY <2>1 DEF Look, MoveTo
    <3>2. /\ at' \in [Runners -> Points] /\ at'[r] \in {"creating", "removing"}
          /\ \A s \in Runners \ {r} : at'[s] = at[s]
      BY <1>2, <3>1 DEF Points
    <3> QED
      BY <1>1, <1>2, <3>1, <3>2
      DEF BuilderInv, LockTypeOK, LockInv, LockLeaksByCrashOnly, OwnsFile
  <2>2. CASE RemoveStale(r)
    <3>1. /\ file' = NoFile /\ takenOver' = TRUE /\ at' = [at EXCEPT ![r] = "creating"]
      BY <2>2 DEF RemoveStale, MoveTo
    <3>2. at' \in [Runners -> Points] /\ \A s \in Runners \ {r} : at'[s] = at[s]
      BY <1>2, <3>1 DEF Points
    <3> QED
      BY <1>1, <3>1, <3>2
      DEF BuilderInv, LockTypeOK, LockFiles, NoFile, LockInv, LockLeaksByCrashOnly
  <2>3. CASE CreateLock(r)
    <3>1. /\ file.kind = "absent" /\ file' = Torn(r) /\ at' = [at EXCEPT ![r] = "writing"]
          /\ takenOver' = takenOver
      BY <2>3 DEF CreateLock, MayCreate, MoveTo
    <3>2. /\ at' \in [Runners -> Points] /\ at'[r] = "writing"
          /\ \A s \in Runners \ {r} : at'[s] = at[s]
      BY <1>2, <3>1 DEF Points
    <3>3. /\ file' \in LockFiles /\ file'.kind = "torn" /\ file'.owner = r
      BY <3>1 DEF Torn, LockFiles
    <3>4. ~takenOver => \A s \in Runners : at[s] \notin {"in", "writing"}
      BY <3>1 DEF BuilderInv, LockInv, OwnsFile, Torn
    <3> QED
      BY <1>1, <1>2, <3>1, <3>2, <3>3, <3>4
      DEF BuilderInv, LockTypeOK, LockInv, LockLeaksByCrashOnly
  <2>4. CASE WriteToken(r)
    <3>1. /\ at[r] = "writing" /\ file' = IF file = Torn(r) THEN HeldBy(r) ELSE file
          /\ at' = [at EXCEPT ![r] = "in"] /\ takenOver' = takenOver
      BY <2>4 DEF WriteToken, MoveTo
    <3>2. /\ at' \in [Runners -> Points] /\ at'[r] = "in"
          /\ \A s \in Runners \ {r} : at'[s] = at[s]
      BY <1>2, <3>1 DEF Points
    <3>3. /\ HeldBy(r) \in LockFiles /\ HeldBy(r).kind = "held" /\ HeldBy(r).owner = r
          /\ Torn(r).kind = "torn" /\ Torn(r).owner = r
      BY DEF HeldBy, Torn, LockFiles
    <3>4. file' \in LockFiles /\ (file'.kind # "absent" => file'.owner \in Runners)
      BY <1>2, <3>1, <3>3 DEF BuilderInv, LockInv
    <3>5. ASSUME ~takenOver
          PROVE  /\ file' = HeldBy(r)
                 /\ \A s \in Runners \ {r} : at[s] \notin {"in", "writing"}
      <4>1. file = Torn(r)
        BY <3>1, <3>5 DEF BuilderInv, LockInv
      <4>2. \A s \in Runners \ {r} : Torn(s) # Torn(r)
        BY DEF Torn
      <4> QED
        BY <3>1, <3>3, <3>5, <4>1, <4>2 DEF BuilderInv, LockInv, OwnsFile
    <3> QED
      BY <1>1, <1>2, <3>1, <3>2, <3>3, <3>4, <3>5
      DEF BuilderInv, LockTypeOK, LockInv, LockLeaksByCrashOnly, OwnsFile
  <2> QED
    BY <1>1, <2>1, <2>2, <2>3, <2>4 DEF LockStep
<1> QED
  BY <1>1, <1>3, OnlyLock

\* A lock grows stale where it is.
LEMMA TimePassesStep ==
  ASSUME BuilderInv, TimePasses
  PROVE  BuilderInv'
<1>1. /\ IsHeld /\ file' = [file EXCEPT !.old = TRUE]
      /\ UNCHANGED <<at, takenOver, disk, run, tree, passed, history, crashes>>
  BY DEF TimePasses, GrowOld
<1>2. file \in LockFiles /\ file.kind = "held"
  BY <1>1 DEF BuilderInv, TypeOK, LockTypeOK, IsHeld
<1>3. file' \in LockFiles /\ file'.kind = file.kind /\ file'.owner = file.owner
  BY <1>1, <1>2 DEF LockFiles
<1>4. \A r \in Runners : file # Torn(r)
  BY <1>2 DEF Torn
<1>5. LockTypeOK' /\ LockInv'
  BY <1>1, <1>3, <1>4 DEF BuilderInv, TypeOK, LockTypeOK, LockInv, LockLeaksByCrashOnly, OwnsFile
<1> QED
  BY <1>1, <1>5, OnlyLock

\* A builder that is done leaves no file of its own behind.
LEMMA ReleaseKeepsLock ==
  ASSUME BuilderInv, NEW r \in Runners, NEW ok, at[r] = "in", ReleaseAfterBuild(r, ok),
         UNCHANGED crashes,
         \A s \in Runners \ {r} : run'[s] = run[s]
  PROVE  LockTypeOK' /\ LockInv'
<1>1. /\ file' = (IF OwnsFile(r) THEN NoFile ELSE file)
      /\ at' = [at EXCEPT ![r] = "out"] /\ takenOver' = takenOver
  BY DEF ReleaseAfterBuild, AfterRelease, MoveTo
<1>2. /\ at' \in [Runners -> Points] /\ at'[r] = "out"
      /\ \A s \in Runners \ {r} : at'[s] = at[s]
  BY <1>1 DEF BuilderInv, TypeOK, LockTypeOK, Points
<1>3. NoFile \in LockFiles /\ NoFile.kind = "absent"
  BY DEF NoFile, LockFiles
<1>4. LockTypeOK'
  BY <1>1, <1>2, <1>3 DEF BuilderInv, TypeOK, LockTypeOK
<1>5. ~takenOver => OwnsFile(r) /\ \A s \in Runners \ {r} : at[s] \notin {"in", "writing"}
  BY DEF BuilderInv, LockInv, OwnsFile, Torn
<1> QED
  BY <1>1, <1>2, <1>3, <1>4, <1>5 DEF BuilderInv, LockInv, LockLeaksByCrashOnly

\* A process that leaves the lock's steps without a file, or by dying, breaks nothing.
LEMMA LeavingKeepsLock ==
  ASSUME BuilderInv, NEW r \in Runners, MoveTo(r, "out"), UNCHANGED <<file, takenOver>>,
         crashes' \in Nat, crashes' # 0 \/ (crashes' = crashes /\ at[r] \notin {"in", "writing"}),
         \A s \in Runners \ {r} : run'[s] = run[s]
  PROVE  LockTypeOK' /\ LockInv'
<1>1. /\ at' \in [Runners -> Points] /\ at'[r] = "out"
      /\ \A s \in Runners \ {r} : at'[s] = at[s]
  BY DEF MoveTo, BuilderInv, TypeOK, LockTypeOK, Points
<1> QED
  BY <1>1 DEF BuilderInv, TypeOK, LockTypeOK, LockInv, LockLeaksByCrashOnly, OwnsFile

-----------------------------------------------------------------------------
(* The stages.                                                             *)

\* What a run that is under way has in hand.
LEMMA TaskInHand ==
  ASSUME BuilderInv, NEW r \in Runners, run[r].phase # "idle"
  PROVE  /\ Task(r) \in TaskStates /\ Task(r).id \in Tasks /\ ~Task(r).committed
         /\ Task(r).stage \in Stages /\ run[r] \in RunStates
         /\ tree \in Trees /\ passed \subseteq Checks
<1>1. run[r] \in RunStates /\ r \in Busy
  BY DEF BuilderInv, TypeOK, RunStates, Busy
<1>2. Task(r) \in TaskStates
  BY <1>1 DEF Task, RunStates, EngineStates
<1>3. Task(r).id # NoTask /\ ~Task(r).committed
  BY <1>1 DEF BuilderInv, Running
<1> QED
  BY <1>1, <1>2, <1>3 DEF TaskStates, BuilderInv, TypeOK

\* A stage that advances with the lock, the tree and the history at rest.
LEMMA StageAdvances ==
  ASSUME BuilderInv, NEW r \in Runners, run[r].phase = "stage",
         NEW t \in TaskStates, t.id = Task(r).id, Advance(r, t),
         UNCHANGED <<lockVars, tree, history, crashes>>,
         passed' \subseteq Checks, passed \subseteq passed',
         Required(Task(r).stage) \subseteq passed => Required(t.stage) \subseteq passed'
  PROVE  BuilderInv'
<1>1. t.id \in Tasks /\ tree \in Trees
  BY TaskInHand
<1>2. /\ disk' \in EngineStates /\ disk'.task = t
      /\ run' \in [Runners -> RunStates]
      /\ \A s \in Runners \ {r} : run'[s] = run[s]
      /\ run'[r].phase \in {"idle", "stage"}
      /\ run'[r].phase = "stage" => run'[r].state.task = t /\ ~t.committed
  BY <1>1, AdvanceEffect
<1>3. \A s \in Runners : run'[s].phase # "lock" => at[s] = "out"
  BY <1>2 DEF BuilderInv, LockInv
<1>4. LockTypeOK' /\ LockInv'
  BY <1>3, LockRests DEF lockVars
<1> QED
  BY <1>1, <1>2, <1>4, Saved

\* A blocker leaves the task at its stage, and a document in the tree.
LEMMA StageBlocks ==
  ASSUME BuilderInv, NEW r \in Runners, run[r].phase = "stage",
         NEW t \in TaskStates, t.id = Task(r).id, t.stage = Task(r).stage, Block(r, t),
         UNCHANGED <<lockVars, passed, history, crashes>>
  PROVE  BuilderInv'
<1>1. tree \in Trees /\ passed \subseteq Checks
  BY TaskInHand
<1>2. /\ tree' \in Trees /\ tree'.code = tree.code /\ tree'.foreign = tree.foreign
  BY <1>1 DEF Block, Trees
<1>3. /\ disk' \in EngineStates /\ disk'.task = t
      /\ run' \in [Runners -> RunStates]
      /\ \A s \in Runners \ {r} : run'[s] = run[s]
      /\ run'[r].phase = "idle"
  BY SaveBlockEffect DEF Block
<1>4. \A s \in Runners : run'[s].phase # "lock" => at[s] = "out"
  BY <1>3 DEF BuilderInv, LockInv
<1>5. LockTypeOK' /\ LockInv'
  BY <1>4, LockRests DEF lockVars
<1> QED
  BY <1>1, <1>2, <1>3, <1>5, Saved

\* Nothing is required before the first check.
LEMMA BeginStep ==
  ASSUME BuilderInv, NEW r \in Runners, Begin(r)
  PROVE  BuilderInv'
<1>1. PICK stage \in {"PLAN", "IMPLEMENT"} :
        run[r].phase = "stage" /\ Advance(r, [Task(r) EXCEPT !.stage = stage])
  BY DEF Begin, AtStage
<1> DEFINE t == [Task(r) EXCEPT !.stage = stage]
<1>2. t \in TaskStates /\ t.id = Task(r).id /\ t.stage = stage
  BY <1>1, TaskInHand DEF TaskStates, Stages
<1>3. Required(t.stage) = {}
  BY <1>2 DEF Required
<1>4. UNCHANGED <<lockVars, tree, passed, history, crashes>> /\ passed \subseteq Checks
  BY <1>1, TaskInHand DEF Begin
<1> QED
  BY <1>1, <1>2, <1>3, <1>4, StageAdvances

\* A check that passes adds what the next stage requires.
LEMMA CheckPassesStep ==
  ASSUME BuilderInv, NEW r \in Runners, NEW stage \in Checks, CheckPasses(r, stage)
  PROVE  BuilderInv'
<1> DEFINE t == [Task(r) EXCEPT
              !.tries = [l \in DOMAIN MaxAttempts |->
                           IF l \in LimitOf(stage) THEN Try(Task(r), l).tries[l] ELSE @[l]],
              !.evidence = @ \cup (Evidence \cap {stage}),
              !.stage = AfterCheck(Task(r), stage)]
<1>1. /\ run[r].phase = "stage" /\ Task(r).stage = stage
      /\ passed' = passed \cup {stage} /\ Advance(r, t)
      /\ UNCHANGED <<lockVars, tree, history, crashes>>
  BY DEF CheckPasses, AtStage
<1>2. AfterCheck(Task(r), stage) \in Stages
  BY DEF AfterCheck, Checks, Stages
<1>3. [l \in DOMAIN MaxAttempts |->
         IF l \in LimitOf(stage) THEN Try(Task(r), l).tries[l] ELSE Task(r).tries[l]]
        \in [DOMAIN MaxAttempts -> Nat]
  <2>1. \A l \in DOMAIN MaxAttempts : Try(Task(r), l).tries[l] \in Nat /\ Task(r).tries[l] \in Nat
    BY <1>1, TaskInHand, TryChangesTries DEF TaskStates
  <2> QED
    BY <2>1
<1>4. t \in TaskStates /\ t.id = Task(r).id /\ t.stage = AfterCheck(Task(r), stage)
  BY <1>1, <1>2, <1>3, TaskInHand DEF TaskStates
<1>5. Required(t.stage) \subseteq Required(stage) \cup {stage}
  <2> HIDE DEF t
  <2> QED
    BY <1>4 DEF AfterCheck, Required, Checks
<1>6. passed' \subseteq Checks
  BY <1>1, TaskInHand
<1> HIDE DEF t
<1> QED
  BY <1>1, <1>4, <1>5, <1>6, StageAdvances

\* A check that fails sends the task back, or blocks.
LEMMA CheckFailsStep ==
  ASSUME BuilderInv, NEW r \in Runners, NEW stage \in Checks, CheckFails(r, stage)
  PROVE  BuilderInv'
<1>1. /\ run[r].phase = "stage"
      /\ UNCHANGED <<lockVars, passed, history, crashes>> /\ passed \subseteq Checks
  BY TaskInHand DEF CheckFails, AtStage
<1>2. ASSUME NEW u \in TaskStates, u.id = Task(r).id,
             Advance(r, [u EXCEPT !.stage = "IMPLEMENT"]), UNCHANGED tree
      PROVE  BuilderInv'
  <2> DEFINE t == [u EXCEPT !.stage = "IMPLEMENT"]
  <2>1. t \in TaskStates /\ t.id = Task(r).id /\ t.stage = "IMPLEMENT"
    BY <1>2 DEF TaskStates, Stages
  <2>2. Required(t.stage) = {}
    BY <2>1 DEF Required
  <2> QED
    BY <1>1, <1>2, <2>1, <2>2, StageAdvances
<1>3. CASE \E l \in LimitOf(stage) : Fail(r, l)
  <2>1. PICK l \in LimitOf(stage) : Fail(r, l)
    BY <1>3
  <2> DEFINE u == Try(Task(r), l)
  <2>2. u \in TaskStates /\ u.id = Task(r).id /\ u.stage = Task(r).stage
    BY <1>1, LimitsAreNamed, TaskInHand, TryChangesTries
  <2>3. (Advance(r, [u EXCEPT !.stage = "IMPLEMENT"]) /\ UNCHANGED tree) \/ Block(r, u)
    BY <2>1 DEF Fail
  <2> HIDE DEF u
  <2> QED
    BY <1>1, <1>2, <2>2, <2>3, StageBlocks
<1>4. CASE LimitOf(stage) = {} /\ Advance(r, [Task(r) EXCEPT !.stage = "IMPLEMENT"]) /\ UNCHANGED tree
  BY <1>1, <1>2, <1>4, TaskInHand
<1> QED
  BY <1>3, <1>4 DEF CheckFails

\* The gate and the veto block, and the gate lets the task on only as it is.
LEMMA GateStep ==
  ASSUME BuilderInv, NEW r \in Runners, SafetyVeto(r) \/ Checkpoint(r)
  PROVE  BuilderInv'
<1>1. /\ run[r].phase = "stage" /\ UNCHANGED <<lockVars, passed, history, crashes>>
      /\ passed \subseteq Checks /\ Task(r) \in TaskStates
  BY TaskInHand DEF SafetyVeto, Checkpoint, AtStage
<1>2. CASE Block(r, Task(r))
  BY <1>1, <1>2, StageBlocks
<1> DEFINE t == [Task(r) EXCEPT !.gate = TRUE, !.stage = "COMMIT"]
<1>3. CASE Advance(r, t) /\ UNCHANGED tree /\ Task(r).stage = "CHECKPOINT"
  <2>1. t \in TaskStates /\ t.id = Task(r).id /\ t.stage = "COMMIT"
    BY <1>1 DEF TaskStates, Stages
  <2>2. Required(t.stage) = Required(Task(r).stage)
    BY <1>3, <2>1 DEF Required
  <2> QED
    BY <1>1, <1>3, <2>1, <2>2, StageAdvances
<1> QED
  BY <1>2, <1>3 DEF SafetyVeto, Checkpoint, AtStage

\* The last stage closes the task.
LEMMA UpdateStateStep ==
  ASSUME BuilderInv, NEW r \in Runners, UpdateState(r)
  PROVE  BuilderInv'
<1> DEFINE t == [Task(r) EXCEPT !.committed = TRUE]
<1>1. /\ run[r].phase = "stage" /\ Advance(r, t)
      /\ UNCHANGED <<lockVars, tree, passed, history, crashes>>
      /\ passed \subseteq Checks /\ Task(r) \in TaskStates
  BY TaskInHand DEF UpdateState, AtStage
<1>2. t \in TaskStates /\ t.id = Task(r).id /\ t.stage = Task(r).stage
  BY <1>1 DEF TaskStates
<1> HIDE DEF t
<1> QED
  BY <1>1, <1>2, StageAdvances

-----------------------------------------------------------------------------
(* Building.                                                               *)

\* A run enters its lock phase with the task as it is.
LEMMA AskForLockStep ==
  ASSUME BuilderInv, NEW r \in Runners, AskForLock(r)
  PROVE  BuilderInv'
<1>1. /\ run[r].phase = "stage" /\ Task(r).stage = "IMPLEMENT" /\ ~IsHeld
      /\ at' = [at EXCEPT ![r] = "asked"] /\ run' = [run EXCEPT ![r].phase = "lock"]
      /\ UNCHANGED <<file, takenOver, disk, tree, passed, history, crashes>>
  BY DEF AskForLock, AtStage, MoveTo
<1>2. /\ run' \in [Runners -> RunStates] /\ run'[r].phase = "lock" /\ Task(r)' = Task(r)
      /\ \A s \in Runners \ {r} : run'[s] = run[s]
      /\ Busy' = Busy /\ r \in Busy
  BY <1>1 DEF BuilderInv, TypeOK, RunStates, Phases, Busy, Task
<1>3. /\ at' \in [Runners -> Points] /\ at'[r] = "asked" /\ at[r] = "out"
      /\ \A s \in Runners \ {r} : at'[s] = at[s]
  BY <1>1 DEF BuilderInv, TypeOK, LockTypeOK, LockInv, Points
<1>4. LockTypeOK' /\ LockInv'
  BY <1>1, <1>2, <1>3
  DEF BuilderInv, TypeOK, LockTypeOK, LockInv, LockLeaksByCrashOnly, OwnsFile
<1>5. TypeOK' /\ StopInv' /\ CommittedCodePassedAllChecks'
  BY <1>1, <1>2, <1>4
  DEF BuilderInv, TypeOK, RunStates, StopInv, CommittedCodePassedAllChecks
<1>6. Running'
  BY <1>2 DEF BuilderInv, Running, Task, Busy
<1>7. ~history.overlap => Busy = {r} /\ InHand(r)
  BY <1>1, <1>2 DEF BuilderInv, Alone, JustCommitted
<1>8. Alone'
  BY <1>1, <1>2, <1>7 DEF Alone, InHand
<1>9. Checked'
  BY <1>1, <1>2, <1>7 DEF BuilderInv, Checked
<1> QED
  BY <1>4, <1>5, <1>6, <1>8, <1>9 DEF BuilderInv

\* A process that is refused the lock has no file.
LEMMA LockErrorStep ==
  ASSUME BuilderInv, NEW r \in Runners, LockError(r)
  PROVE  BuilderInv'
<1>1. /\ Raise(r) /\ MoveTo(r, "out")
      /\ UNCHANGED <<file, takenOver, tree, passed, history, crashes>>
  BY DEF LockError
<1>2. run[r].phase # "idle" /\ at[r] \notin {"in", "writing"}
  BY DEF LockError, AtStage, LookRefused, CreateRefused, BuilderInv, LockInv
<1>3. crashes \in 0..MaxCrashes /\ crashes \in Nat /\ tree \in Trees /\ passed \subseteq Checks
  BY DEF BuilderInv, TypeOK
<1>4. \A s \in Runners \ {r} : run'[s] = run[s]
  BY <1>1 DEF Raise, BuilderInv, TypeOK
<1>5. LockTypeOK' /\ LockInv'
  BY <1>1, <1>2, <1>3, <1>4, LeavingKeepsLock
<1> QED
  BY <1>1, <1>2, <1>3, <1>5, Left

\* However a build ends, its lock goes and its checks are void.
LEMMA BuildStep ==
  ASSUME BuilderInv, NEW r \in Runners, BuildSucceeds(r) \/ BuildFails(r) \/ BuildRaises(r)
  PROVE  BuilderInv'
<1>1. at[r] = "in" /\ UNCHANGED <<history, crashes>>
  BY DEF BuildSucceeds, BuildFails, BuildRaises
<1>2. run[r].phase = "lock"
  BY <1>1, LockPhase
<1>3. /\ Task(r) \in TaskStates /\ Task(r).id \in Tasks /\ ~Task(r).committed
      /\ tree \in Trees /\ passed \subseteq Checks /\ crashes \in 0..MaxCrashes
  BY <1>2, TaskInHand DEF BuilderInv, TypeOK
<1> DEFINE u == Try(Task(r), "build")
<1>4. /\ u \in TaskStates /\ u.id = Task(r).id /\ u.stage = Task(r).stage
      /\ u.committed = Task(r).committed
  BY <1>3, LimitsAreNamed, TryChangesTries
<1>5. PICK ok \in BOOLEAN : ReleaseAfterBuild(r, ok)
  BY DEF BuildSucceeds, BuildFails, BuildRaises
<1>6. CASE BuildSucceeds(r)
  <2> DEFINE t == Implemented(Task(r))
  <2>1. t \in TaskStates /\ t.id = Task(r).id /\ t.stage = "TEST"
    BY <1>4 DEF Implemented, TaskStates, Stages, Evidence
  <2>2. Required(t.stage) = {}
    BY <2>1 DEF Required
  <2>3. Advance(r, t) /\ tree' = [tree EXCEPT !.code = TRUE] /\ passed' = {}
    BY <1>6 DEF BuildSucceeds, Edit
  <2> HIDE DEF t
  <2>4. /\ disk' \in EngineStates /\ disk'.task = t
        /\ run' \in [Runners -> RunStates]
        /\ \A s \in Runners \ {r} : run'[s] = run[s]
        /\ run'[r].phase \in {"idle", "stage"}
        /\ run'[r].phase = "stage" => run'[r].state.task = t /\ ~t.committed
    BY <1>3, <2>1, <2>3, AdvanceEffect
  <2>5. LockTypeOK' /\ LockInv'
    BY <1>1, <1>5, <2>4, ReleaseKeepsLock
  <2>6. tree' \in Trees
    BY <1>3, <2>3 DEF Trees
  <2> QED
    BY <1>1, <1>2, <2>1, <2>2, <2>3, <2>4, <2>5, <2>6, Saved
<1>7. CASE BuildFails(r)
  <2> HIDE DEF u
  <2>1. tree' \in Trees /\ passed' \subseteq Checks
    BY <1>3, <1>7 DEF BuildFails, Trees
  <2>2. /\ disk' \in EngineStates /\ disk'.task = u
        /\ run' \in [Runners -> RunStates]
        /\ \A s \in Runners \ {r} : run'[s] = run[s]
        /\ run'[r].phase \in {"idle", "stage"}
        /\ run'[r].phase = "stage" => run'[r].state.task = u /\ ~u.committed
    <3>1. CASE Advance(r, u)
      BY <1>3, <1>4, <3>1, AdvanceEffect
    <3>2. CASE /\ Save([run[r].state EXCEPT !.task = u, !.blocking = TRUE, !.paused = FALSE])
               /\ run' = [run EXCEPT ![r] = NoRun]
      BY <1>4, <3>2, SaveBlockEffect
    <3> QED
      BY <1>7, <3>1, <3>2 DEF BuildFails, u
  <2>3. LockTypeOK' /\ LockInv'
    BY <1>1, <1>5, <2>2, ReleaseKeepsLock
  <2>4. Task(r).stage = "IMPLEMENT" => Required(u.stage) = {}
    BY <1>4 DEF Required
  <2> QED
    BY <1>1, <1>2, <1>4, <2>1, <2>2, <2>3, <2>4, Saved
<1>8. CASE BuildRaises(r)
  <2>1. Raise(r) /\ tree' = [tree EXCEPT !.code = TRUE] /\ passed' = {}
    BY <1>8 DEF BuildRaises, Edit
  <2>2. \A s \in Runners \ {r} : run'[s] = run[s]
    BY <2>1 DEF Raise, BuilderInv, TypeOK
  <2>3. LockTypeOK' /\ LockInv'
    BY <1>1, <1>5, <2>2, ReleaseKeepsLock
  <2>4. tree' \in Trees
    BY <1>3, <2>1 DEF Trees
  <2> QED
    BY <1>1, <1>2, <1>3, <2>1, <2>3, <2>4, Left
<1> QED
  BY <1>6, <1>7, <1>8

-----------------------------------------------------------------------------
(* Committing.                                                             *)

\* What a run in its gated phase has in hand when it is alone.
LEMMA GatedAlone ==
  ASSUME BuilderInv, NEW r \in Runners, run[r].phase # "idle", ~history.overlap
  PROVE  Busy = {r} /\ (InHand(r) \/ JustCommitted(r))
BY DEF BuilderInv, Alone, Busy

\* The last gate lets code through that has passed everything, or blocks.
LEMMA PrepareCommitStep ==
  ASSUME BuilderInv, NEW r \in Runners, PrepareCommit(r)
  PROVE  BuilderInv'
<1>1. /\ run[r].phase = "stage" /\ Task(r).stage = "COMMIT"
      /\ UNCHANGED <<lockVars, passed, history, crashes>>
  BY DEF PrepareCommit, AtStage
<1>2. CASE Block(r, Task(r))
  BY <1>1, <1>2, TaskInHand, StageBlocks
<1>3. CASE /\ Gate(Task(r)) /\ run' = [run EXCEPT ![r].phase = "gated"]
           /\ tree' = [tree EXCEPT !.docs = TRUE] /\ UNCHANGED disk
  <2>1. /\ run' \in [Runners -> RunStates] /\ run'[r].phase = "gated" /\ Task(r)' = Task(r)
        /\ \A s \in Runners \ {r} : run'[s] = run[s]
        /\ Busy' = Busy
    BY <1>1, <1>3 DEF BuilderInv, TypeOK, RunStates, Phases, Busy, Task
  <2>2. /\ tree \in Trees /\ tree' \in Trees /\ tree'.code = tree.code /\ tree'.foreign = tree.foreign
        /\ tree.code /\ ~tree.foreign
    BY <1>3 DEF BuilderInv, TypeOK, Trees, Gate
  <2>3. \A s \in Runners : run'[s].phase # "lock" => at[s] = "out"
    BY <1>1, <2>1 DEF BuilderInv, LockInv
  <2>4. LockTypeOK' /\ LockInv'
    BY <1>1, <2>3, LockRests DEF lockVars
  <2>5. TypeOK' /\ StopInv' /\ CommittedCodePassedAllChecks'
    BY <1>1, <1>3, <2>1, <2>2, <2>4
    DEF BuilderInv, TypeOK, RunStates, StopInv, CommittedCodePassedAllChecks
  <2>6. Running'
    BY <2>1 DEF BuilderInv, Running, Task, Busy
  <2>7. ~history.overlap => Busy = {r} /\ InHand(r)
    BY <1>1, GatedAlone DEF JustCommitted
  <2>8. Alone'
    BY <1>1, <1>3, <2>1, <2>7 DEF Alone, InHand
  <2>9. Checked'
    <3>1. SUFFICES ASSUME ~history.overlap, ~history.late
                   PROVE  Required(disk.task.stage) \subseteq passed /\ passed = Checks
      BY <1>1, <1>3, <2>1, <2>2, <2>7 DEF Checked
    <3>2. disk.task.stage = "COMMIT"
      BY <1>1, <2>7, <3>1 DEF InHand
    <3>3. Required(disk.task.stage) = Checks /\ passed \subseteq Checks
      BY <3>2 DEF Required, BuilderInv, TypeOK
    <3> QED
      BY <2>2, <3>1, <3>3 DEF BuilderInv, Checked
  <2> QED
    BY <2>4, <2>5, <2>6, <2>8, <2>9 DEF BuilderInv
<1> QED
  BY <1>2, <1>3 DEF PrepareCommit

\* The commit takes code that has passed everything, but for what is excepted.
LEMMA CommitStep ==
  ASSUME BuilderInv, NEW r \in Runners, Commit(r)
  PROVE  BuilderInv'
<1>1. /\ run[r].phase = "gated" /\ Task(r).stage = "COMMIT"
      /\ tree' = CleanTree /\ passed' = {}
      /\ history' = [history EXCEPT !.unchecked = @ \/ passed # Checks]
      /\ run' = [run EXCEPT ![r].state.task.stage = "STATE_UPDATE"]
      /\ UNCHANGED <<lockVars, disk, crashes>>
  BY DEF Commit
<1>2. run[r] \in RunStates /\ Task(r) \in TaskStates
  BY <1>1, TaskInHand
<1> DEFINE x == [run[r] EXCEPT !.state =
                   [run[r].state EXCEPT !.task = [Task(r) EXCEPT !.stage = "STATE_UPDATE"]]]
<1>3. /\ x \in RunStates /\ x.phase = "gated" /\ x.state.task.stage = "STATE_UPDATE"
      /\ x.state.task.id = Task(r).id /\ x.state.task.committed = Task(r).committed
  BY <1>1, <1>2 DEF RunStates, EngineStates, TaskStates, Stages
<1>4. run' = [run EXCEPT ![r] = x]
  BY <1>1 DEF Task
<1> HIDE DEF x
<1>5. /\ run' \in [Runners -> RunStates] /\ run'[r] = x
      /\ \A s \in Runners \ {r} : run'[s] = run[s]
  BY <1>3, <1>4 DEF BuilderInv, TypeOK, RunStates
<1>6. Busy' = Busy /\ r \in Busy
  BY <1>1, <1>3, <1>5 DEF Busy
<1>7. /\ history' \in [overlap : BOOLEAN, late : BOOLEAN, unchecked : BOOLEAN, stopped : BOOLEAN]
      /\ history'.overlap = history.overlap /\ history'.late = history.late
      /\ history'.stopped = history.stopped
      /\ history'.unchecked = (history.unchecked \/ passed # Checks)
  BY <1>1 DEF BuilderInv, TypeOK
<1>8. CleanTree \in Trees /\ ~CleanTree.code
  BY DEF CleanTree, Trees
<1>9. \A s \in Runners : run'[s].phase # "lock" => at[s] = "out"
  BY <1>1, <1>3, <1>5 DEF BuilderInv, LockInv
<1>10. LockTypeOK' /\ LockInv'
  BY <1>1, <1>9, LockRests DEF lockVars
<1>11. TypeOK' /\ StopInv'
  BY <1>1, <1>5, <1>6, <1>7, <1>8, <1>10 DEF BuilderInv, TypeOK, RunStates, StopInv
<1>12. Running'
  BY <1>3, <1>5, <1>6 DEF BuilderInv, Running, Task, Busy
<1>13. ~history.overlap => Busy = {r} /\ InHand(r)
  BY <1>1, GatedAlone DEF JustCommitted
<1>14. Alone'
  <2>1. disk.task = Task(r) => disk.task.id # NoTask /\ ~disk.task.committed
    BY <1>6 DEF BuilderInv, Running
  <2> QED
    BY <1>1, <1>3, <1>5, <1>6, <1>7, <1>8, <1>13, <2>1 DEF Alone, InHand, JustCommitted, Task
<1>15. Checked'
  BY <1>1, <1>3, <1>5, <1>6, <1>7, <1>8, <1>13 DEF Checked, Task
<1>16. CommittedCodePassedAllChecks'
  <2>1. ~history.overlap /\ ~history.late => passed = Checks
    BY <1>1, <1>6 DEF BuilderInv, Checked
  <2> QED
    BY <1>7, <2>1 DEF BuilderInv, CommittedCodePassedAllChecks
<1> QED
  BY <1>10, <1>11, <1>12, <1>14, <1>15, <1>16 DEF BuilderInv

\* git's errors end the run.
LEMMA GitRaisesStep ==
  ASSUME BuilderInv, NEW r \in Runners, GitRaises(r)
  PROVE  BuilderInv'
<1>1. /\ Raise(r) /\ UNCHANGED <<lockVars, tree, passed, history, crashes>>
      /\ run[r].phase \in {"stage", "gated"}
  BY DEF GitRaises, AtStage
<1>2. \A s \in Runners : run'[s].phase # "lock" => at[s] = "out"
  BY <1>1 DEF Raise, BuilderInv, TypeOK, LockInv
<1>3. LockTypeOK' /\ LockInv'
  BY <1>1, <1>2, LockRests DEF lockVars
<1>4. crashes \in 0..MaxCrashes /\ tree \in Trees /\ passed \subseteq Checks
  BY DEF BuilderInv, TypeOK
<1> QED
  BY <1>1, <1>3, <1>4, Left

\* The committed task is saved, and there is nothing to commit again.
LEMMA SaveCommitStep ==
  ASSUME BuilderInv, NEW r \in Runners, SaveCommit(r)
  PROVE  BuilderInv'
<1>1. /\ run[r].phase = "gated" /\ Task(r).stage = "STATE_UPDATE" /\ disk' = run[r].state
      /\ UNCHANGED <<lockVars, tree, passed, history, crashes>>
  BY DEF SaveCommit, Save
<1>2. /\ run[r] \in RunStates /\ Task(r) \in TaskStates /\ r \in Busy
      /\ Task(r).id # NoTask /\ ~Task(r).committed
  BY <1>1, TaskInHand DEF Busy, BuilderInv, Running
<1>3. disk' \in EngineStates /\ disk'.task = Task(r)
  BY <1>1, <1>2 DEF RunStates, Task
<1>4. Counted(run[r].steps) \in 0..MaxSteps
  BY <1>2, BuilderConstants DEF Counted, RunStates
<1> DEFINE x == IF run[r].steps + 1 = MaxSteps THEN NoRun
                ELSE [run[r] EXCEPT !.phase = "stage", !.steps = Counted(@)]
<1>5. /\ x \in RunStates /\ x.phase \in {"idle", "stage"}
      /\ x.phase = "stage" => x.state.task = Task(r)
  <2>1. CASE run[r].steps + 1 = MaxSteps
    BY <2>1, RestingTypes
  <2>2. CASE run[r].steps + 1 # MaxSteps
    BY <1>2, <1>4, <2>2 DEF RunStates, Phases, Task
  <2> QED
    BY <2>1, <2>2
<1>6. run' = [run EXCEPT ![r] = x]
  <2>1. CASE run[r].steps + 1 = MaxSteps
    BY <2>1 DEF SaveCommit
  <2>2. CASE run[r].steps + 1 # MaxSteps
    BY <2>2 DEF SaveCommit
  <2> QED
    BY <2>1, <2>2
<1> HIDE DEF x
<1>7. /\ run' \in [Runners -> RunStates] /\ run'[r] = x
      /\ \A s \in Runners \ {r} : run'[s] = run[s]
  BY <1>5, <1>6 DEF BuilderInv, TypeOK, RunStates
<1>8. Busy' \subseteq Busy
  BY <1>2, <1>7 DEF Busy
<1>9. \A s \in Runners : run'[s].phase # "lock" => at[s] = "out"
  BY <1>1, <1>7 DEF BuilderInv, LockInv
<1>10. LockTypeOK' /\ LockInv'
  BY <1>1, <1>9, LockRests DEF lockVars
<1>11. TypeOK' /\ StopInv' /\ CommittedCodePassedAllChecks'
  BY <1>1, <1>2, <1>3, <1>7, <1>8, <1>10
  DEF BuilderInv, TypeOK, RunStates, StopInv, CommittedCodePassedAllChecks
<1>12. Running'
  BY <1>2, <1>5, <1>7, <1>8 DEF BuilderInv, Running, Task, Busy
<1>13. ~history.overlap => Busy = {r}
  BY <1>1, GatedAlone
<1>14. \A s \in Busy' : s # r \/ (run'[s].phase = "stage" /\ Task(s)' = Task(r))
  BY <1>5, <1>7 DEF Busy, Task
<1>15. Alone'
  BY <1>1, <1>3, <1>8, <1>13, <1>14 DEF Alone, InHand
<1>16. Checked'
  <2>1. Required(disk'.task.stage) = {}
    BY <1>1, <1>3 DEF Required
  <2> QED
    BY <1>1, <1>8, <1>13, <1>14, <2>1 DEF Checked
<1> QED
  BY <1>10, <1>11, <1>12, <1>15, <1>16 DEF BuilderInv

-----------------------------------------------------------------------------
(* The other commands, and the world.                                      *)

\* A run starts on a task that is enrolled and neither blocked nor paused; a second
\* one is an overlap.
LEMMA StartRunStep ==
  ASSUME BuilderInv, NEW r \in Runners, StartRun(r)
  PROVE  BuilderInv'
<1> DEFINE x == [phase |-> "stage", state |-> disk, steps |-> 0]
<1>1. /\ run[r].phase = "idle" /\ MayRun(disk)
      /\ run' = [run EXCEPT ![r] = x]
      /\ history' = [history EXCEPT !.overlap = @ \/ Busy # {}]
      /\ UNCHANGED <<lockVars, disk, tree, passed, crashes>>
  BY DEF StartRun
<1>2. x \in RunStates
  BY BuilderConstants DEF BuilderInv, TypeOK, RunStates, Phases
<1>3. /\ run' \in [Runners -> RunStates] /\ run'[r] = x
      /\ \A s \in Runners \ {r} : run'[s] = run[s]
      /\ Busy' = Busy \cup {r}
  BY <1>1, <1>2 DEF BuilderInv, TypeOK, RunStates, Busy
<1>4. /\ history' \in [overlap : BOOLEAN, late : BOOLEAN, unchecked : BOOLEAN, stopped : BOOLEAN]
      /\ history'.overlap = (history.overlap \/ Busy # {}) /\ history'.late = history.late
      /\ history'.stopped = history.stopped /\ history'.unchecked = history.unchecked
  BY <1>1 DEF BuilderInv, TypeOK
<1>5. \A s \in Runners : run'[s].phase # "lock" => at[s] = "out"
  BY <1>1, <1>3 DEF BuilderInv, LockInv
<1>6. LockTypeOK' /\ LockInv'
  BY <1>1, <1>5, LockRests DEF lockVars
<1>7. TypeOK'
  BY <1>1, <1>3, <1>4, <1>6 DEF BuilderInv, TypeOK, RunStates
<1>8. StopInv'
  BY <1>1, <1>4 DEF BuilderInv, StopInv, MayRun
<1>9. Running'
  <2>1. ASSUME NEW s \in Busy'
        PROVE  Task(s)'.id # NoTask /\ ~Task(s)'.committed
    <3>1. CASE s = r
      BY <1>1, <1>3, <3>1 DEF Task, MayRun
    <3>2. CASE s # r
      BY <1>3, <2>1, <3>2 DEF BuilderInv, Running, Task, Busy
    <3> QED
      BY <3>1, <3>2
  <2> QED
    BY <2>1 DEF Running
<1>10. Alone'
  BY <1>1, <1>3, <1>4 DEF Alone, InHand, Task
<1>11. Checked'
  BY <1>1, <1>3, <1>4 DEF BuilderInv, Checked, Busy
<1>12. CommittedCodePassedAllChecks'
  BY <1>4 DEF BuilderInv, CommittedCodePassedAllChecks
<1> QED
  BY <1>6, <1>7, <1>8, <1>9, <1>10, <1>11, <1>12 DEF BuilderInv

\* A command that saves no other task while a run has one in hand.
LEMMA CommandSaves ==
  ASSUME BuilderInv, UNCHANGED <<lockVars, run, passed, crashes>>,
         disk' \in EngineStates, tree' \in Trees,
         tree'.code = tree.code, tree'.foreign = tree.foreign,
         history' \in [overlap : BOOLEAN, late : BOOLEAN, unchecked : BOOLEAN, stopped : BOOLEAN],
         history'.overlap = history.overlap, history'.late = history.late,
         history'.unchecked = history.unchecked,
         history'.stopped => Busy = {} /\ (disk'.paused \/ disk'.blocking),
         \/ disk'.task = disk.task
         \/ /\ disk.task.id = NoTask \/ disk.task.committed
            /\ disk'.task.stage = "DISCOVER"
  PROVE  BuilderInv'
<1>1. Busy' = Busy /\ \A r \in Runners : Task(r)' = Task(r)
  BY DEF Busy, Task
<1>2. LockTypeOK' /\ LockInv'
  BY LockRests DEF lockVars, BuilderInv, LockInv
<1>3. TypeOK' /\ StopInv' /\ CommittedCodePassedAllChecks'
  BY <1>1, <1>2 DEF BuilderInv, TypeOK, RunStates, StopInv, CommittedCodePassedAllChecks
<1>4. Running'
  BY <1>1 DEF BuilderInv, Running, Busy
<1>5. CASE disk'.task = disk.task
  <2>1. Alone'
    BY <1>1, <1>5 DEF BuilderInv, Alone, InHand, JustCommitted, Busy
  <2>2. Checked'
    BY <1>1, <1>5 DEF BuilderInv, Checked, Busy
  <2> QED
    BY <1>2, <1>3, <1>4, <2>1, <2>2 DEF BuilderInv
<1>6. CASE (disk.task.id = NoTask \/ disk.task.committed) /\ disk'.task.stage = "DISCOVER"
  <2>1. ~history.overlap => Busy = {}
    BY <1>6 DEF BuilderInv, Alone, InHand, JustCommitted, Running
  <2>2. Required(disk'.task.stage) = {}
    BY <1>6 DEF Required
  <2>3. Alone' /\ Checked'
    BY <1>1, <2>1, <2>2 DEF Alone, Checked
  <2> QED
    BY <1>2, <1>3, <1>4, <2>3 DEF BuilderInv
<1> QED
  BY <1>5, <1>6

\* Pausing, resuming, refusing and enrolling.
LEMMA CommandStepKeeps ==
  ASSUME BuilderInv, CommandStep
  PROVE  BuilderInv'
<1>1. /\ disk \in EngineStates /\ tree \in Trees
      /\ history \in [overlap : BOOLEAN, late : BOOLEAN, unchecked : BOOLEAN, stopped : BOOLEAN]
  BY DEF BuilderInv, TypeOK
<1>2. UNCHANGED <<lockVars, run, passed, crashes>>
  BY DEF CommandStep, Pause, Resume, RefuseTask, BlockFromCommand, Enrol
<1>3. CASE Pause
  <2>1. /\ disk' = [disk EXCEPT !.paused = TRUE] /\ tree' = tree
        /\ history' = [history EXCEPT !.stopped = @ \/ Busy = {}]
    BY <1>3 DEF Pause, Save
  <2>2. /\ disk' \in EngineStates /\ disk'.task = disk.task /\ disk'.paused
    BY <1>1, <2>1 DEF EngineStates
  <2>3. /\ history' \in [overlap : BOOLEAN, late : BOOLEAN, unchecked : BOOLEAN, stopped : BOOLEAN]
        /\ history'.overlap = history.overlap /\ history'.late = history.late
        /\ history'.unchecked = history.unchecked
        /\ history'.stopped = (history.stopped \/ Busy = {})
    BY <1>1, <2>1
  <2>4. history.stopped => Busy = {}
    BY DEF BuilderInv, StopInv
  <2> QED
    BY <1>1, <1>2, <2>1, <2>2, <2>3, <2>4, CommandSaves
<1>4. CASE Resume
  <2>1. /\ disk' = [disk EXCEPT !.paused = FALSE] /\ tree' = tree
        /\ history' = [history EXCEPT !.stopped = @ /\ disk.blocking]
    BY <1>4 DEF Resume, Save
  <2>2. /\ disk' \in EngineStates /\ disk'.task = disk.task /\ disk'.blocking = disk.blocking
    BY <1>1, <2>1 DEF EngineStates
  <2>3. /\ history' \in [overlap : BOOLEAN, late : BOOLEAN, unchecked : BOOLEAN, stopped : BOOLEAN]
        /\ history'.overlap = history.overlap /\ history'.late = history.late
        /\ history'.unchecked = history.unchecked
        /\ history'.stopped = (history.stopped /\ disk.blocking)
    BY <1>1, <2>1 DEF EngineStates
  <2>4. history.stopped => Busy = {}
    BY DEF BuilderInv, StopInv
  <2> QED
    BY <1>1, <1>2, <2>1, <2>2, <2>3, <2>4, CommandSaves
<1>5. CASE RefuseTask
  <2>1. /\ disk' = [disk EXCEPT !.blocking = TRUE, !.paused = FALSE]
        /\ tree' = [tree EXCEPT !.docs = TRUE]
        /\ history' = [history EXCEPT !.stopped = @ \/ Busy = {}]
    BY <1>5 DEF RefuseTask, BlockFromCommand, Save
  <2>2. /\ disk' \in EngineStates /\ disk'.task = disk.task /\ disk'.blocking
        /\ tree' \in Trees /\ tree'.code = tree.code /\ tree'.foreign = tree.foreign
    BY <1>1, <2>1 DEF EngineStates, Trees
  <2>3. /\ history' \in [overlap : BOOLEAN, late : BOOLEAN, unchecked : BOOLEAN, stopped : BOOLEAN]
        /\ history'.overlap = history.overlap /\ history'.late = history.late
        /\ history'.unchecked = history.unchecked
        /\ history'.stopped = (history.stopped \/ Busy = {})
    BY <1>1, <2>1
  <2>4. history.stopped => Busy = {}
    BY DEF BuilderInv, StopInv
  <2> QED
    BY <1>2, <2>2, <2>3, <2>4, CommandSaves
<1>6. CASE Enrol
  <2>1. PICK t \in Tasks : disk' = [disk EXCEPT !.task = NewTask(t), !.blocking = FALSE]
    BY <1>6 DEF Enrol, Save
  <2>2. /\ disk.task.id = NoTask \/ disk.task.committed
        /\ tree' = tree /\ history' = [history EXCEPT !.stopped = @ /\ disk.paused]
    BY <1>6 DEF Enrol
  <2>3. NewTask(t) \in TaskStates /\ NewTask(t).stage = "DISCOVER"
    BY RestingTypes DEF NewTask
  <2>4. /\ disk' \in EngineStates /\ disk'.task = NewTask(t) /\ disk'.paused = disk.paused
    BY <1>1, <2>1, <2>3 DEF EngineStates
  <2>5. /\ history' \in [overlap : BOOLEAN, late : BOOLEAN, unchecked : BOOLEAN, stopped : BOOLEAN]
        /\ history'.overlap = history.overlap /\ history'.late = history.late
        /\ history'.unchecked = history.unchecked
        /\ history'.stopped = (history.stopped /\ disk.paused)
    BY <1>1, <2>2 DEF EngineStates
  <2>6. history.stopped => Busy = {}
    BY DEF BuilderInv, StopInv
  <2> QED
    BY <1>1, <1>2, <2>2, <2>3, <2>4, <2>5, <2>6, CommandSaves
<1> QED
  BY <1>3, <1>4, <1>5, <1>6 DEF CommandStep

\* Somebody else's edits: either the gate sees them, or they are late.
LEMMA TreeStep ==
  ASSUME BuilderInv, ForeignEdit \/ TidyUp
  PROVE  BuilderInv'
<1>1. /\ tree \in Trees /\ passed \subseteq Checks
      /\ history \in [overlap : BOOLEAN, late : BOOLEAN, unchecked : BOOLEAN, stopped : BOOLEAN]
  BY DEF BuilderInv, TypeOK
<1>2. UNCHANGED <<lockVars, disk, run, crashes>>
  BY DEF ForeignEdit, TidyUp
<1>3. Busy' = Busy /\ \A r \in Runners : Task(r)' = Task(r)
  BY <1>2 DEF Busy, Task
<1>4. LockTypeOK' /\ LockInv'
  BY <1>2, LockRests DEF lockVars, BuilderInv, LockInv
<1>5. /\ tree' \in Trees /\ tree'.code = tree.code /\ passed' \subseteq Checks
      /\ history' \in [overlap : BOOLEAN, late : BOOLEAN, unchecked : BOOLEAN, stopped : BOOLEAN]
      /\ history'.overlap = history.overlap /\ history'.stopped = history.stopped
      /\ history'.unchecked = history.unchecked /\ (history.late => history'.late)
  <2>1. CASE ForeignEdit
    BY <1>1, <2>1 DEF ForeignEdit, Trees
  <2>2. CASE TidyUp
    BY <1>1, <2>2 DEF TidyUp, Trees
  <2> QED
    BY <2>1, <2>2
<1>6. TypeOK' /\ StopInv'
  BY <1>2, <1>3, <1>4, <1>5 DEF BuilderInv, TypeOK, RunStates, StopInv
<1>7. Running' /\ Alone'
  BY <1>2, <1>3, <1>5 DEF BuilderInv, Running, Alone, InHand, JustCommitted, Busy
<1>8. Checked'
  <2>1. SUFFICES ASSUME ~history.overlap, ~history'.late
                 PROVE  /\ tree'.code /\ ~tree'.foreign => Required(disk.task.stage) \subseteq passed'
                        /\ \A r \in Busy : run[r].phase = "gated" /\ Task(r).stage = "COMMIT" =>
                             ~tree'.foreign /\ passed' = Checks
    BY <1>2, <1>3, <1>5 DEF Checked, Busy
  <2>2. CASE ForeignEdit
    <3>1. tree'.foreign /\ \A r \in Busy : run[r].phase # "gated"
      BY <1>1, <2>1, <2>2 DEF ForeignEdit, Trees, Busy
    <3> QED
      BY <3>1
  <2>3. CASE TidyUp
    <3>1. /\ ~tree'.foreign /\ passed' = (IF tree.foreign THEN {} ELSE passed)
          /\ ~(tree.foreign /\ tree.code)
      BY <1>1, <2>1, <2>3 DEF TidyUp, Trees
    <3>2. ~history.late
      BY <1>5, <2>1
    <3> QED
      BY <1>5, <2>1, <3>1, <3>2 DEF BuilderInv, Checked
  <2> QED
    BY <2>2, <2>3
<1>9. CommittedCodePassedAllChecks'
  BY <1>5 DEF BuilderInv, CommittedCodePassedAllChecks
<1> QED
  BY <1>4, <1>6, <1>7, <1>8, <1>9 DEF BuilderInv

\* A process dies with its copy of the state.
LEMMA CrashStep ==
  ASSUME BuilderInv, NEW r \in Runners, Crash(r)
  PROVE  BuilderInv'
<1>1. /\ crashes < MaxCrashes /\ run[r].phase # "idle" /\ Raise(r) /\ MoveTo(r, "out")
      /\ crashes' = crashes + 1 /\ UNCHANGED <<file, takenOver, tree, passed, history>>
  BY DEF Crash
<1>2. /\ crashes' \in 0..MaxCrashes /\ crashes' \in Nat /\ crashes' # 0
      /\ tree \in Trees /\ passed \subseteq Checks
  BY <1>1, BuilderConstants DEF BuilderInv, TypeOK
<1>3. \A s \in Runners \ {r} : run'[s] = run[s]
  BY <1>1 DEF Raise, BuilderInv, TypeOK
<1>4. LockTypeOK' /\ LockInv'
  BY <1>1, <1>2, <1>3, LeavingKeepsLock
<1> QED
  BY <1>1, <1>2, <1>4, Left

-----------------------------------------------------------------------------
(* The whole.                                                              *)

\* Every step keeps the invariant.
LEMMA BuilderStep ==
  ASSUME BuilderInv, [Next]_vars
  PROVE  BuilderInv'
<1>1. CASE UNCHANGED vars
  <2>1. LockTypeOK' /\ LockInv'
    BY <1>1, LockRests DEF vars, lockVars, BuilderInv, LockInv
  <2> QED
    BY <1>1, <2>1, OnlyLock DEF vars
<1>2. ASSUME NEW r \in Runners, RunStep(r)
      PROVE  BuilderInv'
  BY <1>2, BeginStep, AskForLockStep, AcquireStep, LockErrorStep, BuildStep, CheckPassesStep,
     CheckFailsStep, GateStep, PrepareCommitStep, CommitStep, GitRaisesStep, SaveCommitStep,
     UpdateStateStep
  DEF RunStep
<1> QED
  BY <1>1, <1>2, StartRunStep, CrashStep, CommandStepKeeps, TreeStep, TimePassesStep
  DEF Next, WorldStep

\* The initial state.
LEMMA BuilderStart ==
  ASSUME Init
  PROVE  BuilderInv
<1>1. /\ file = NoFile /\ at = [r \in Runners |-> "out"] /\ takenOver = FALSE
      /\ disk = FreshState /\ run = [r \in Runners |-> NoRun]
      /\ tree = CleanTree /\ passed = {} /\ history = Quiet /\ crashes = 0
  BY DEF Init, LockInit
<1>2. LockTypeOK
  BY <1>1 DEF LockTypeOK, NoFile, LockFiles, Points
<1>3. LockInv
  BY <1>1 DEF LockInv, NoFile, LockLeaksByCrashOnly
<1>4. TypeOK
  <2>1. crashes \in 0..MaxCrashes
    BY <1>1, BuilderConstants
  <2> QED
    BY <1>1, <1>2, <2>1, RestingTypes DEF TypeOK, RunStates, Quiet
<1>5. Busy = {}
  BY <1>1, RestingTypes DEF Busy
<1>6. StopInv /\ Running /\ Alone /\ CommittedCodePassedAllChecks
  BY <1>1, <1>5 DEF StopInv, Running, Alone, CommittedCodePassedAllChecks, Quiet
<1>7. Checked
  BY <1>1, <1>5 DEF Checked, CleanTree
<1> QED
  BY <1>2, <1>3, <1>4, <1>6, <1>7 DEF BuilderInv

\* What holds of the lock, the runs, the saved state and the tree at all times.
THEOREM BuilderInvariant == Spec => []BuilderInv
<1> QED
  BY BuilderStart, BuilderStep, PTL DEF Spec

\* The types of the orchestrator's state.
THEOREM BuilderTypes == Spec => []TypeOK
<1> QED
  BY BuilderInvariant, PTL DEF BuilderInv

\* Two processes hold the lock of lock.py at once only after one took over a stale
\* lock, for any number of processes, crashes and stale looks.
THEOREM OneBuilderAtATime == Spec => []OneBuilder
<1>1. BuilderInv => OneBuilder
  BY DEF BuilderInv, LockInv, OneBuilder, OwnsFile
<1> QED
  BY <1>1, BuilderInvariant, PTL

\* "A task cannot be approved or COMMITTED unless every required stage genuinely
\* executed" (pipeline.py:53), on the code that is committed: for any queue, any limits
\* and any failures, unless two runs overlap or somebody else edits too late for the gate.
THEOREM OnlyCheckedCodeIsCommitted == Spec => []CommittedCodePassedAllChecks
<1> QED
  BY BuilderInvariant, PTL DEF BuilderInv

\* A pause or a blocker recorded between runs keeps every run from starting.
THEOREM StopsHold == Spec => []StopHolds
<1>1. BuilderInv => StopHolds
  BY DEF BuilderInv, StopInv, StopHolds
<1> QED
  BY <1>1, BuilderInvariant, PTL

\* Only a death leaves a lock file without its builder.
THEOREM LocksAreReleased == Spec => []LockLeaksByCrashOnly
<1> QED
  BY BuilderInvariant, PTL DEF BuilderInv, LockInv
===============================================================================
