----------------------------- MODULE BuilderLock ------------------------------
(***************************************************************************)
(* The file lock of the engineering orchestrator (tools/orch/lock.py) as   *)
(* the processes that run it take it: look at the file, remove it when it  *)
(* is stale, create it exclusively, write the token into it.  Each of      *)
(* these is a system call of its own, so other processes, an hour without  *)
(* a heartbeat, and a crash come between any two of them.                  *)
(***************************************************************************)
EXTENDS Naturals, FiniteSets

CONSTANTS Runners,   \* processes that execute "orch.cli run"
          Nobody     \* owner of a lock file that does not exist

ASSUME NobodyIsNoRunner == Nobody \notin Runners

VARIABLES file,      \* .ai/state/builder.lock
          at,        \* at[r]: how far r has come in acquire, "in" with a token
          takenOver  \* history: a stale lock was removed

lockVars == <<file, at, takenOver>>

\* "torn": created, its JSON not written yet; read_lock answers None.
LockFiles == [kind : {"absent", "torn", "held"}, owner : Runners \cup {Nobody}, old : BOOLEAN]

NoFile == [kind |-> "absent", owner |-> Nobody, old |-> FALSE]
Torn(r) == [kind |-> "torn", owner |-> r, old |-> FALSE]
HeldBy(r) == [kind |-> "held", owner |-> r, old |-> FALSE]

Points == {"out", "asked", "removing", "creating", "writing", "in"}

MoveTo(r, point) == at' = [at EXCEPT ![r] = point]

LockInit ==
  /\ file = NoFile
  /\ at = [r \in Runners |-> "out"]
  /\ takenOver = FALSE

-----------------------------------------------------------------------------

\* _act_acquire_builder: any readable lock, stale or not, is refused; an absent
\* or empty file goes on to acquire.
IsHeld == file.kind = "held"

\* acquire looks at the file: only a stale lock may be removed.
Look(r) ==
  /\ at[r] = "asked"
  /\ \/ ~IsHeld /\ MoveTo(r, "creating")
     \/ IsHeld /\ file.old /\ MoveTo(r, "removing")
  /\ UNCHANGED <<file, takenOver>>

\* LockError: the lock is held and not stale.
LookRefused(r) == at[r] = "asked" /\ IsHeld /\ ~file.old

\* Whatever the file is by now is unlinked.
RemoveStale(r) ==
  /\ at[r] = "removing"
  /\ file' = NoFile /\ takenOver' = TRUE /\ MoveTo(r, "creating")

\* Mutant of MayCreate: the file is opened without O_EXCL.
CreateOver == TRUE

\* O_CREAT | O_EXCL succeeds on a missing path only.
MayCreate == file.kind = "absent"

CreateLock(r) ==
  /\ at[r] = "creating" /\ MayCreate
  /\ file' = Torn(r) /\ MoveTo(r, "writing")
  /\ UNCHANGED takenOver

\* LockError: another process created the file first.
CreateRefused(r) == at[r] = "creating" /\ ~MayCreate

\* The token goes into the file that was created, which may be unlinked by now.
WriteToken(r) ==
  /\ at[r] = "writing"
  /\ file' = IF file = Torn(r) THEN HeldBy(r) ELSE file
  /\ MoveTo(r, "in")
  /\ UNCHANGED takenOver

\* An hour passes: the lock counts as stale from now on.
GrowOld ==
  /\ IsHeld /\ ~file.old
  /\ file' = [file EXCEPT !.old = TRUE]
  /\ UNCHANGED <<at, takenOver>>

OwnsFile(r) == file.kind = "held" /\ file.owner = r

\* release deletes the file it owns and forgets the token when there is none;
\* with the token of another in it, it raises and leaves the file alone.
AfterRelease(r) == IF OwnsFile(r) THEN NoFile ELSE file

LockStep(r) == Look(r) \/ RemoveStale(r) \/ CreateLock(r) \/ WriteToken(r)

-----------------------------------------------------------------------------

LockTypeOK ==
  /\ file \in LockFiles
  /\ at \in [Runners -> Points]
  /\ takenOver \in BOOLEAN

\* "Only ONE Builder may modify the repository at a time" (lock.py:3): two
\* processes hold the lock at once only after a stale lock was taken over.
OneBuilder ==
  ~takenOver => \A r, s \in Runners : at[r] = "in" /\ at[s] = "in" => r = s
===============================================================================
