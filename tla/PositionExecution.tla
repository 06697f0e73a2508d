-------------------------- MODULE PositionExecution --------------------------
(***************************************************************************)
(* The execution core of the paper engine: the order pipeline              *)
(* (oem.execute_order over the idempotency guard), the position tracker,   *)
(* the journal, and recovery, with the threads that share them.            *)
(*                                                                         *)
(*   scan  enters positions, marks them, and closes the critical ones      *)
(*   rt    the one-second loop: marks, ratchets stops, autocloses          *)
(*   api   request handlers: the operator's close override                 *)
(*                                                                         *)
(* Nothing serialises them: the tracker's map has no lock, and a position  *)
(* is an immutable record that is read, copied with changes and stored     *)
(* back.  Thread t stands at pc[t] of its current operation, job[t], which *)
(* holds the copy it read.                                                 *)
(*                                                                         *)
(* There are two deployments.  "service" keeps guard and journal in SQLite *)
(* on connections owned by the scan thread; SQLite refuses every other     *)
(* thread.  "api" has an in-memory guard, and a journal whose connection   *)
(* belongs to a thread that never writes to it: nothing is ever stored.    *)
(***************************************************************************)
EXTENDS PositionState, Naturals

CONSTANTS Positions,    \* trades, each with one entry key and one exit key
          NoPosition,
          ScanThread, RtThread, ApiThreads,
          MaxStop,      \* bound: rungs of the trailing-stop ladder
          MaxCrashes    \* bound: crashes of the process

ASSUME ThreadsDiffer ==
  /\ ScanThread # RtThread
  /\ ScanThread \notin ApiThreads
  /\ RtThread \notin ApiThreads

ASSUME BoundsAreNaturals == MaxStop \in Nat /\ MaxCrashes \in Nat

VARIABLES deployment,   \* "service" or "api"; fixed
          status,       \* of the process: "down", "up", or "refused" at startup
          tracker,      \* PositionTracker._positions
          seen,         \* IdempotencyGuard._seen_keys
          keys,         \* table idempotency_keys
          events,       \* executed events in table execution_events
          snapshots,    \* latest row per position in table position_snapshots
          fills,        \* history: fills the adapter made for each key
          pc,           \* the next step of each thread
          job,          \* the operation each thread is in
          crashes

disk == <<keys, events, snapshots>>
vars == <<deployment, status, tracker, seen, keys, events, snapshots, fills, pc, job, crashes>>

Threads == {ScanThread, RtThread} \cup ApiThreads
Keys    == {"entry", "exit"} \X Positions
Views   == [status : {Absent, "OPEN", "EXITING", "CLOSED"}, stop : 0..MaxStop]
Nothing == [status |-> Absent, stop |-> 0]

Steps == {"idle", "exiting", "check", "record", "memory", "known", "fill", "adopt", "close",
          "event", "snapshot", "write"}

Jobs  == [kind : {"none", "entry", "exit", "update"}, pos : Positions \cup {NoPosition},
          view : Views]
NoJob == [kind |-> "none", pos |-> NoPosition, view |-> Nothing]

Key(t) == <<job[t].kind, job[t].pos>>
Now(t, step) == pc[t] = step
BeginAt(t, step, kind, p, view) ==
  /\ pc' = [pc EXCEPT ![t] = step]
  /\ job' = [job EXCEPT ![t] = [kind |-> kind, pos |-> p, view |-> view]]
Goto(t, step) == pc' = [pc EXCEPT ![t] = step] /\ UNCHANGED job
Finish(t) == pc' = [pc EXCEPT ![t] = "idle"] /\ job' = [job EXCEPT ![t] = NoJob]

\* A write to SQLite succeeds only on the thread that opened the connection.
OwnsDatabase(t) == deployment = "service" /\ t = ScanThread

-----------------------------------------------------------------------------
(* Entries and exits start.                                                *)

\* execute_signal, called from the scan with an accepted signal.
BeginEntry(p) ==
  /\ status = "up" /\ Now(ScanThread, "idle")
  /\ BeginAt(ScanThread, "check", "entry", p, Nothing)
  /\ UNCHANGED <<deployment, status, tracker, seen, disk, fills, crashes>>

\* _dispatch_close re-reads the tracked copy and goes on only if it is managed.
BeginClose(t, p) ==
  /\ status = "up" /\ Now(t, "idle")
  /\ tracker[p].status \in Managed
  /\ BeginAt(t, "exiting", "exit", p, tracker[p])
  /\ UNCHANGED <<deployment, status, tracker, seen, disk, fills, crashes>>

\* transition_to(latest, EXITING): validated and built from the copy it was given.
SetExiting(t) ==
  /\ Now(t, "exiting")
  /\ CanTransition(job[t].view.status, "EXITING")
  /\ tracker' = [tracker EXCEPT ![job[t].pos] =
                   [status |-> "EXITING", stop |-> job[t].view.stop]]
  /\ Goto(t, "check")
  /\ UNCHANGED <<deployment, status, seen, disk, fills, crashes>>

-----------------------------------------------------------------------------
(* The order pipeline, oem.execute_order.                                  *)

IsDuplicate(k) == k \in seen

DuplicateCheck(t) ==
  /\ Now(t, "check")
  /\ IF IsDuplicate(Key(t)) THEN Finish(t) ELSE Goto(t, "record")
  /\ UNCHANGED <<deployment, status, tracker, seen, disk, fills, crashes>>

\* Kill switch, risk guardian or endpoint guard: the order is dropped.  An exit
\* is dropped too (unusable equity), and its position stays EXITING.
GateBlocks(t) ==
  /\ Now(t, "record")
  /\ Finish(t)
  /\ UNCHANGED <<deployment, status, tracker, seen, disk, fills, crashes>>

\* PersistentIdempotencyGuard on a thread that does not own its connection.
RecordRaises(t) ==
  /\ Now(t, "record")
  /\ deployment = "service" /\ ~OwnsDatabase(t)
  /\ Finish(t)
  /\ UNCHANGED <<deployment, status, tracker, seen, disk, fills, crashes>>

\* Mutant of PersistKey: the row is inserted but never committed.
PersistUncommitted(t) ==
  /\ Now(t, "record")
  /\ OwnsDatabase(t)
  /\ IF Key(t) \in seen THEN Finish(t) ELSE Goto(t, "memory")
  /\ UNCHANGED <<deployment, status, tracker, seen, disk, fills, crashes>>

\* PersistentIdempotencyGuard.record_event, first half: INSERT OR IGNORE, commit.
PersistKey(t) ==
  /\ Now(t, "record")
  /\ OwnsDatabase(t)
  /\ IF Key(t) \in seen
     THEN Finish(t) /\ UNCHANGED keys
     ELSE /\ keys' = keys \cup {Key(t)}
          /\ IF Key(t) \in keys THEN Goto(t, "known") ELSE Goto(t, "memory")
  /\ UNCHANGED <<deployment, status, tracker, seen, events, snapshots, fills, crashes>>

\* Second half: the key enters memory; a key that was already stored is refused.
RegisterKey(t) ==
  /\ pc[t] \in {"memory", "known"}
  /\ seen' = seen \cup {Key(t)}
  /\ IF Now(t, "memory") THEN Goto(t, "fill") ELSE Finish(t)
  /\ UNCHANGED <<deployment, status, tracker, disk, fills, crashes>>

\* Mutant of RecordInMemory: the key is added without being tested again.
RecordUntested(t) ==
  /\ Now(t, "record")
  /\ deployment = "api"
  /\ Goto(t, "fill")
  /\ seen' = seen \cup {Key(t)}
  /\ UNCHANGED <<deployment, status, tracker, disk, fills, crashes>>

\* IdempotencyGuard.record_event: test and add under one lock.
RecordInMemory(t) ==
  /\ Now(t, "record")
  /\ deployment = "api"
  /\ IF Key(t) \in seen THEN Finish(t) ELSE Goto(t, "fill")
  /\ seen' = seen \cup {Key(t)}
  /\ UNCHANGED <<deployment, status, tracker, disk, fills, crashes>>

\* adapter.execute.
Fill(t) ==
  /\ Now(t, "fill")
  /\ fills' = [fills EXCEPT ![Key(t)] = @ + 1]
  /\ IF job[t].kind = "entry" THEN Goto(t, "adopt") ELSE Goto(t, "close")
  /\ UNCHANGED <<deployment, status, tracker, seen, disk, crashes>>

-----------------------------------------------------------------------------
(* A fill reaches the tracker, then the journal.                           *)

\* execute_signal builds the OPEN position with its initial stop and adopts it.
Adopt(t) ==
  /\ Now(t, "adopt")
  /\ tracker' = [tracker EXCEPT ![job[t].pos] = [status |-> "OPEN", stop |-> 0]]
  /\ Goto(t, "event")
  /\ UNCHANGED <<deployment, status, seen, disk, fills, crashes>>

\* close_position on the EXITING copy, at its full remaining quantity.
Close(t) ==
  /\ Now(t, "close")
  /\ tracker' = [tracker EXCEPT ![job[t].pos] =
                   [status |-> "CLOSED", stop |-> job[t].view.stop]]
  /\ Goto(t, "event")
  /\ UNCHANGED <<deployment, status, seen, disk, fills, crashes>>

\* _persist_events, _persist_danger_result: first the events; a write that
\* raises is noted in memory and the operation goes on.
PersistEvent(t) ==
  /\ Now(t, "event")
  /\ events' = IF OwnsDatabase(t) THEN events \cup {Key(t)} ELSE events
  /\ Goto(t, "snapshot")
  /\ UNCHANGED <<deployment, status, tracker, seen, keys, snapshots, fills, crashes>>

\* Mutant of PersistSnapshot: it stores whatever the tracker holds by now.
SnapshotTracked(t) ==
  /\ Now(t, "snapshot")
  /\ snapshots' = IF OwnsDatabase(t)
                  THEN [snapshots EXCEPT ![job[t].pos] = tracker[job[t].pos].status]
                  ELSE snapshots
  /\ Finish(t)
  /\ UNCHANGED <<deployment, status, tracker, seen, keys, events, fills, crashes>>

\* ... then the snapshot of the opened or closed position.
PersistSnapshot(t) ==
  /\ Now(t, "snapshot")
  /\ snapshots' =
       IF OwnsDatabase(t)
       THEN [snapshots EXCEPT ![job[t].pos] =
               IF job[t].kind = "entry" THEN "OPEN" ELSE "CLOSED"]
       ELSE snapshots
  /\ Finish(t)
  /\ UNCHANGED <<deployment, status, tracker, seen, keys, events, fills, crashes>>

-----------------------------------------------------------------------------
(* Marks and stop ratchets: read the tracked copy, store a changed one.    *)

\* mark_to_market keeps the stop; update_stop_loss, on the one-second loop only,
\* moves it up the ladder.
BeginUpdate(t, p, rungs) ==
  /\ status = "up" /\ Now(t, "idle")
  /\ t \in {ScanThread, RtThread}
  /\ t = ScanThread => rungs = 0
  /\ tracker[p].status \in Active
  /\ tracker[p].stop + rungs <= MaxStop
  /\ BeginAt(t, "write", "update", p,
             [status |-> tracker[p].status, stop |-> tracker[p].stop + rungs])
  /\ UNCHANGED <<deployment, status, tracker, seen, disk, fills, crashes>>

WriteBack(t) ==
  /\ Now(t, "write")
  /\ tracker' = [tracker EXCEPT ![job[t].pos] = job[t].view]
  /\ Finish(t)
  /\ UNCHANGED <<deployment, status, seen, disk, fills, crashes>>

-----------------------------------------------------------------------------
(* The process stops at any point, and starts again from its database.     *)

\* "fills" is an account of one paper world: the api deployment's ends here.
Crash ==
  /\ status = "up" /\ crashes < MaxCrashes
  /\ status' = "down"
  /\ crashes' = crashes + 1
  /\ tracker' = [p \in Positions |-> Nothing]
  /\ seen' = {}
  /\ pc' = [t \in Threads |-> "idle"]
  /\ job' = [t \in Threads |-> NoJob]
  /\ fills' = IF deployment = "api" THEN [k \in Keys |-> 0] ELSE fills
  /\ UNCHANGED <<deployment, disk>>

\* Mutant of UnmatchedEvents: any snapshot of the position accounts for an exit.
EventsWithoutSnapshot == {k \in events : snapshots[k[2]] = "NONE"}

\* _find_unmatched_executed_events: an entry needs some snapshot, an exit a
\* CLOSED one.
UnmatchedEvents ==
  {k \in events : \/ snapshots[k[2]] = "NONE"
                  \/ k[1] = "exit" /\ snapshots[k[2]] # "CLOSED"}

\* Mutant of Recovered: a position whose exit key was taken counts as closed.
RecoveredUnlessExitKnown ==
  [p \in Positions |->
    IF snapshots[p] = "OPEN" /\ <<"exit", p>> \notin keys
    THEN [status |-> "OPEN", stop |-> 0] ELSE Nothing]

\* recover: positions whose latest snapshot is OPEN, with the stop stored in it.
Recovered ==
  [p \in Positions |->
    IF snapshots[p] = "OPEN" THEN [status |-> "OPEN", stop |-> 0] ELSE Nothing]

\* Mutant of Start: unmatched events are reported, and the engine starts anyway.
StartUnreconciled ==
  /\ status = "down"
  /\ status' = "up"
  /\ tracker' = Recovered
  /\ keys' = keys \cup events
  /\ seen' = keys'
  /\ UNCHANGED <<deployment, events, snapshots, fills, pc, job, crashes>>

\* Guard and journal are opened, _crash_recover runs, the threads start.
Start ==
  /\ status = "down"
  /\ UnmatchedEvents = {}
  /\ status' = "up"
  /\ tracker' = Recovered
  /\ keys' = keys \cup events
  /\ seen' = keys'
  /\ UNCHANGED <<deployment, events, snapshots, fills, pc, job, crashes>>

\* EngineError: the engine does not start until an operator repairs the journal.
Refuse ==
  /\ status = "down"
  /\ UnmatchedEvents # {}
  /\ status' = "refused"
  /\ UNCHANGED <<deployment, tracker, seen, disk, fills, pc, job, crashes>>

-----------------------------------------------------------------------------
Init ==
  /\ deployment \in {"service", "api"}
  /\ status = "down"
  /\ tracker = [p \in Positions |-> Nothing]
  /\ seen = {} /\ keys = {} /\ events = {}
  /\ snapshots = [p \in Positions |-> "NONE"]
  /\ fills = [k \in Keys |-> 0]
  /\ pc = [t \in Threads |-> "idle"]
  /\ job = [t \in Threads |-> NoJob]
  /\ crashes = 0

Execute(t) ==
  \/ DuplicateCheck(t) \/ GateBlocks(t) \/ RecordRaises(t) \/ PersistKey(t)
  \/ RegisterKey(t) \/ RecordInMemory(t) \/ Fill(t)

Settle(t) ==
  SetExiting(t) \/ Adopt(t) \/ Close(t) \/ PersistEvent(t) \/ PersistSnapshot(t) \/ WriteBack(t)

Begin(t, p) == BeginClose(t, p) \/ \E rungs \in {0, 1} : BeginUpdate(t, p, rungs)

Next ==
  \/ \E p \in Positions : BeginEntry(p)
  \/ \E t \in Threads : Execute(t) \/ Settle(t) \/ \E p \in Positions : Begin(t, p)
  \/ Crash \/ Start \/ Refuse

Spec == Init /\ [][Next]_vars

-----------------------------------------------------------------------------
(* Properties                                                              *)

TypeOK ==
  /\ deployment \in {"service", "api"}
  /\ status \in {"down", "up", "refused"}
  /\ tracker \in [Positions -> Views]
  /\ seen \in SUBSET Keys /\ keys \in SUBSET Keys /\ events \in SUBSET Keys
  /\ snapshots \in [Positions -> {"NONE", "OPEN", "CLOSED"}]
  /\ fills \in [Keys -> Nat]
  /\ pc \in [Threads -> Steps] /\ job \in [Threads -> Jobs]
  /\ crashes \in 0..MaxCrashes

\* No order is filled twice, whichever threads dispatch it, however often it is
\* retried, and (where keys are stored) whenever the process dies and restarts.
ExecutedAtMostOnce == \A k \in Keys : fills[k] <= 1

\* What the journal says was executed was executed, and an exit it has recorded
\* belongs to a CLOSED snapshot as soon as the operation that wrote it is over:
\* no engine runs on a journal in which an exit is only half recorded.
RunsOnConsistentJournal ==
  /\ \A k \in events : fills[k] > 0
  /\ status = "up" =>
       \A p \in Positions : <<"exit", p>> \in events =>
         \/ snapshots[p] = "CLOSED"
         \/ \E t \in Threads : Now(t, "snapshot") /\ Key(t) = <<"exit", p>>

\* In the service deployment a stored open position that was never sold is held
\* by the tracker, open or on its way out, across every restart.
OpenSurvivesRestart ==
  deployment = "service" /\ status = "up" =>
    \A p \in Positions :
      snapshots[p] = "OPEN" /\ fills[<<"exit", p>>] = 0 =>
        tracker[p].status \in {"OPEN", "EXITING"}

\* The pipeline implements the promise of ExecuteOnce.
Abstract == INSTANCE ExecuteOnce WITH durable <- (deployment = "service"), executed <- fills
ImplementsExecuteOnce == Abstract!Spec

\* position_tracker.py: "a stale snapshot must never resurrect a closed (or
\* closing) position": while the process runs, no step makes it OPEN again.
NoResurrection ==
  [][\A p \in Positions : tracker[p].status \in {"EXITING", "CLOSED"} =>
       tracker'[p].status # "OPEN"]_vars

\* idempotency.py: "Recovery fails closed if state is ambiguous".  With every
\* thread at rest, a key the database holds is a key whose execution it holds.
RecoveryFailsClosed ==
  status = "up" /\ (\A t \in Threads : Now(t, "idle")) => keys \subseteq events

-----------------------------------------------------------------------------
(* Why the properties hold: an inductive invariant.                        *)

Registered == IF deployment = "service" THEN keys ELSE seen
Filled(kind, p) == fills[<<kind, p>>] > 0

\* Thread t holds the right to fill its order: it registered the key itself.
Claims(t) == pc[t] \in {"memory", "fill"}

Recording(t) == pc[t] \in {"event", "snapshot"}

\* Each step of an operation belongs to one kind of operation, holds a copy
\* with a known status, and (past the guard) sits on a thread that can store.
OperationsAreShaped ==
  \A t \in Threads : pc[t] # "idle" =>
    /\ job[t].pos \in Positions /\ job[t].kind \in {"entry", "exit", "update"}
    /\ status = "up"
    /\ job[t].kind = "entry" => t = ScanThread
    /\ job[t].kind = "update" <=> Now(t, "write")
    /\ pc[t] \in {"exiting", "close"} => job[t].kind = "exit"
    /\ Now(t, "adopt") => job[t].kind = "entry"
    /\ pc[t] \in {"exiting", "write"} => job[t].view.status = "OPEN"
    /\ pc[t] \in {"memory", "known"} => deployment = "service"
    /\ deployment = "service" /\ pc[t] \in {"memory", "known", "fill", "adopt", "close",
                                               "event", "snapshot"} => t = ScanThread

\* A filled key is registered, and a claim on a key is exclusive and unused.
ClaimsAreExclusive ==
  /\ \A k \in Keys : fills[k] > 0 => k \in Registered
  /\ \A t \in Threads : Claims(t) => Key(t) \in Registered /\ fills[Key(t)] = 0
  /\ \A t, u \in Threads : Claims(t) /\ Claims(u) /\ Key(t) = Key(u) => t = u

\* Whatever is held, stored, or being closed was entered before.
EntryComesFirst ==
  /\ \A p \in Positions :
       /\ tracker[p].status # Absent => Filled("entry", p)
       /\ snapshots[p] # "NONE" => Filled("entry", p)
       /\ Filled("exit", p) => Filled("entry", p)
       /\ tracker[p].status = "CLOSED" => Filled("exit", p)
  /\ \A t \in Threads :
       /\ job[t].kind \in {"exit", "update"} => Filled("entry", job[t].pos)
       /\ pc[t] \in {"adopt", "close", "event", "snapshot"} =>
            Filled(job[t].kind, job[t].pos)

\* The tracked copy and the stored snapshot follow the fills, in this order.
RecordsFollowFills ==
  /\ \A k \in events : fills[k] > 0
  /\ deployment = "service" =>
       \A t \in Threads : job[t].kind = "entry" /\ pc[t] \in {"adopt", "event", "snapshot"} =>
         /\ ~Filled("exit", job[t].pos)
         /\ Recording(t) => tracker[job[t].pos].status \in {"OPEN", "EXITING"}

\* A process that is not running holds nothing, and an api deployment that is
\* not running never did anything.
NothingOutlivesProcess ==
  /\ status # "up" => \A t \in Threads : Now(t, "idle")
  /\ deployment = "api" =>
       /\ keys = {} /\ events = {} /\ \A p \in Positions : snapshots[p] = "NONE"
       /\ status # "up" => \A k \in Keys : fills[k] = 0

\* The inductive invariant: the shape of every operation, the exclusive right to
\* fill, and the order in which fills, tracker and journal learn of each other.
IInv ==
  /\ TypeOK /\ ExecutedAtMostOnce /\ OperationsAreShaped /\ ClaimsAreExclusive
  /\ EntryComesFirst /\ RecordsFollowFills /\ NothingOutlivesProcess
  /\ RunsOnConsistentJournal /\ OpenSurvivesRestart
===============================================================================
