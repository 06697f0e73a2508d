---------------------- MODULE PositionExecution_proofs ----------------------
(***************************************************************************)
(* Proofs about PositionExecution, for every set of trades and request     *)
(* handlers and every bound: IInv is inductive, so its conjuncts hold in   *)
(* every reachable state, and the pipeline implements ExecuteOnce.         *)
(***************************************************************************)
EXTENDS PositionExecution, TLAPS

-----------------------------------------------------------------------------
(* Types.                                                                  *)

\* The resting values belong to their types.
LEMMA NoJobIsTyped == NoJob \in Jobs /\ Nothing \in Views
BY BoundsAreNaturals DEF NoJob, Jobs, Nothing, Views, Absent

\* The two fixed threads are threads.
LEMMA ThreadsAreTyped == ScanThread \in Threads /\ RtThread \in Threads
BY DEF Threads

\* A thread in the order pipeline works on an entry or an exit of a trade.
LEMMA KeyIsTyped ==
  ASSUME TypeOK, OperationsAreShaped, NEW t \in Threads,
         pc[t] \in {"check", "record", "memory", "known", "fill", "adopt", "close",
                    "event", "snapshot"}
  PROVE  Key(t) \in Keys /\ job[t].pos \in Positions /\ job[t].kind \in {"entry", "exit"}
BY DEF TypeOK, OperationsAreShaped, Key, Keys, Now, Jobs

-----------------------------------------------------------------------------
(* The three steps that move what is stored or throw away what is held.    *)

\* Storing a snapshot: on the owning thread it names the fill just made, on
\* any other nothing is stored.
LEMMA SnapshotFollowsFill ==
  ASSUME IInv, NEW t \in Threads, PersistSnapshot(t)
  PROVE  RunsOnConsistentJournal' /\ OpenSurvivesRestart'
<1> USE DEF IInv
<1>1. job[t].pos \in Positions /\ job[t].kind \in {"entry", "exit"}
  BY KeyIsTyped DEF PersistSnapshot, Now
<1>2. CASE OwnsDatabase(t)
  <2>1. job[t].kind = "entry" =>
          /\ <<"exit", job[t].pos>> \notin events
          /\ fills[<<"exit", job[t].pos>>] = 0
          /\ tracker[job[t].pos].status \in {"OPEN", "EXITING"}
    BY <1>1, <1>2 DEF PersistSnapshot, RecordsFollowFills, Filled, Recording, Now,
       OwnsDatabase, TypeOK, Keys
  <2>2. job[t].kind = "exit" => fills[<<"exit", job[t].pos>>] > 0
    BY <1>1 DEF PersistSnapshot, EntryComesFirst, Filled, Now
  <2>3. \A p \in Positions :
          snapshots'[p] = IF p # job[t].pos THEN snapshots[p]
                          ELSE IF job[t].kind = "entry" THEN "OPEN" ELSE "CLOSED"
    BY <1>1, <1>2 DEF PersistSnapshot, TypeOK
  <2>4. \A u \in Threads : u # t =>
          Key(u)' = Key(u) /\ (Now(u, "snapshot") => Now(u, "snapshot")')
    BY DEF PersistSnapshot, Finish, Key, Now, TypeOK
  <2>5. UNCHANGED <<events, fills, status, tracker, deployment>>
    BY DEF PersistSnapshot
  <2>6. RunsOnConsistentJournal'
    BY <1>1, <2>1, <2>3, <2>4, <2>5 DEF RunsOnConsistentJournal, Key
  <2>7. OpenSurvivesRestart'
    BY <1>1, <2>1, <2>2, <2>3, <2>5 DEF OpenSurvivesRestart
  <2> QED
    BY <2>6, <2>7
<1>3. CASE ~OwnsDatabase(t)
  <2>1. deployment = "api"
    BY <1>3 DEF OwnsDatabase, OperationsAreShaped, PersistSnapshot, Now, TypeOK
  <2>2. events' = {} /\ deployment' = "api"
    BY <2>1 DEF PersistSnapshot, NothingOutlivesProcess
  <2> QED
    BY <2>2 DEF RunsOnConsistentJournal, OpenSurvivesRestart
<1> QED
  BY <1>2, <1>3

\* A crash: what is stored was entered and filled, what was held is gone.
LEMMA CrashKeepsHistory ==
  ASSUME IInv, Crash
  PROVE EntryComesFirst' /\ RecordsFollowFills' /\ RunsOnConsistentJournal'
<1> USE DEF IInv
<1>1. CASE deployment = "service"
  <2>1. /\ UNCHANGED <<fills, snapshots, events>>
        /\ \A p \in Positions : tracker'[p].status = Absent
    BY <1>1 DEF Crash, disk, Nothing
  <2>2. \A t \in Threads : pc'[t] = "idle" /\ job'[t].kind = "none"
    BY DEF Crash, NoJob
  <2>3. EntryComesFirst'
    BY <2>1, <2>2 DEF EntryComesFirst, Filled, Absent
  <2>4. RecordsFollowFills'
    BY <2>1, <2>2 DEF RecordsFollowFills
  <2>5. RunsOnConsistentJournal'
    BY <2>1 DEF RunsOnConsistentJournal, Crash
  <2> QED
    BY <2>3, <2>4, <2>5
<1>2. CASE deployment = "api"
  <2>1. /\ events' = {}
        /\ \A p \in Positions : tracker'[p].status = Absent /\ snapshots'[p] = "NONE"
    BY <1>2 DEF Crash, disk, Nothing, NothingOutlivesProcess
  <2>2. \A t \in Threads : pc'[t] = "idle" /\ job'[t].kind = "none"
    BY DEF Crash, NoJob
  <2>3. \A p \in Positions : fills'[<<"exit", p>>] = 0
    BY <1>2 DEF Crash, Keys
  <2>4. EntryComesFirst'
    BY <2>1, <2>2, <2>3 DEF EntryComesFirst, Filled, Absent
  <2>5. RecordsFollowFills' /\ RunsOnConsistentJournal'
    BY <2>1, <2>2 DEF RecordsFollowFills, RunsOnConsistentJournal
  <2> QED
    BY <2>4, <2>5
<1> QED
  BY <1>1, <1>2 DEF TypeOK

\* A start: the guard is loaded with every stored key, the tracker with what
\* was entered.
LEMMA StartKeepsHistory ==
  ASSUME IInv, Start
  PROVE ClaimsAreExclusive' /\ EntryComesFirst'
<1> USE DEF IInv
<1>1. \A t \in Threads : ~Claims(t)' /\ pc'[t] = "idle" /\ job' = job
  BY DEF Start, Claims, NothingOutlivesProcess, Now
<1>2. ClaimsAreExclusive'
  <2>1. \A k \in Keys : fills'[k] > 0 => k \in Registered'
    BY DEF Start, ClaimsAreExclusive, Registered, NothingOutlivesProcess, TypeOK
  <2> QED
    BY <1>1, <2>1 DEF ClaimsAreExclusive
<1>3. \A p \in Positions : tracker'[p].status = "OPEN" \/ tracker'[p].status = Absent
  BY DEF Start, Recovered, Nothing
<1>4. \A p \in Positions : tracker'[p].status # Absent => snapshots[p] # "NONE"
  BY DEF Start, Recovered, Nothing
<1>5. fills' = fills /\ snapshots' = snapshots /\ pc' = pc
  BY DEF Start
<1>6. EntryComesFirst'
  BY <1>1, <1>3, <1>4, <1>5 DEF EntryComesFirst, Filled, Absent
<1> QED
  BY <1>2, <1>6

-----------------------------------------------------------------------------
(* Every action preserves IInv, conjunct by conjunct.                      *)

\* execute_signal starts on the scan thread: only its place and its job change.
LEMMA BeginEntryStep ==
  ASSUME IInv, NEW p \in Positions, BeginEntry(p)
  PROVE  IInv'
<1> USE DEF IInv
<1>1. TypeOK'
  BY NoJobIsTyped, ThreadsAreTyped DEF BeginEntry, BeginAt, TypeOK, Jobs, Steps, disk
<1>2. ExecutedAtMostOnce'
  BY DEF BeginEntry, ExecutedAtMostOnce
<1>3. OperationsAreShaped'
  BY DEF Now, BeginEntry, BeginAt, TypeOK, OperationsAreShaped
<1>4. ClaimsAreExclusive'
  BY DEF Key, disk, BeginEntry, BeginAt, TypeOK, ClaimsAreExclusive, Claims, Registered
<1>5. EntryComesFirst'
  BY DEF disk, BeginEntry, BeginAt, TypeOK, EntryComesFirst, Filled
<1>6. RecordsFollowFills'
  BY DEF disk, BeginEntry, BeginAt, TypeOK, RecordsFollowFills, Filled, Recording
<1>7. NothingOutlivesProcess'
  BY DEF disk, BeginEntry, NothingOutlivesProcess
<1>8. RunsOnConsistentJournal'
  BY DEF Now, Key, disk, BeginEntry, BeginAt, RunsOnConsistentJournal
<1>9. OpenSurvivesRestart'
  BY DEF disk, BeginEntry, OpenSurvivesRestart
<1> QED
  BY <1>1, <1>2, <1>3, <1>4, <1>5, <1>6, <1>7, <1>8, <1>9

\* A close starts from an active copy, so its trade was entered.
LEMMA BeginCloseStep ==
  ASSUME IInv, NEW t \in Threads, NEW p \in Positions, BeginClose(t, p)
  PROVE  IInv'
<1> USE DEF IInv
<1>1. TypeOK'
  BY DEF disk, BeginClose, BeginAt, TypeOK, Jobs, Steps
<1>2. ExecutedAtMostOnce'
  BY DEF BeginClose, ExecutedAtMostOnce
<1>3. OperationsAreShaped'
  <2>1. tracker[p].status = "OPEN"
    BY DEF TypeOK, Views, BeginClose, Managed, Absent
  <2> QED
    BY <2>1 DEF TypeOK, Jobs, BeginClose, BeginAt, OperationsAreShaped, Now
<1>4. ClaimsAreExclusive'
  BY DEF Key, disk, BeginClose, BeginAt, TypeOK, ClaimsAreExclusive, Claims, Registered
<1>5. EntryComesFirst'
  <2>1. UNCHANGED <<tracker, snapshots, fills>>
    BY DEF BeginClose, disk
  <2>2. Filled("entry", p)
    BY DEF BeginClose, Managed, Absent, EntryComesFirst
  <2>3. \A u \in Threads : u # t => job'[u] = job[u] /\ pc'[u] = pc[u]
    BY DEF BeginClose, BeginAt, TypeOK
  <2>4. job'[t].pos = p /\ pc'[t] = "exiting"
    BY DEF BeginClose, BeginAt, TypeOK
  <2> QED
    BY <2>1, <2>2, <2>3, <2>4 DEF EntryComesFirst, Filled
<1>6. RecordsFollowFills'
  BY DEF disk, BeginClose, BeginAt, RecordsFollowFills, Filled, Recording
<1>7. NothingOutlivesProcess'
  BY DEF disk, BeginClose, NothingOutlivesProcess
<1>8. RunsOnConsistentJournal'
  BY DEF Now, Key, disk, BeginClose, BeginAt, RunsOnConsistentJournal
<1>9. OpenSurvivesRestart'
  BY DEF disk, BeginClose, OpenSurvivesRestart
<1> QED
  BY <1>1, <1>2, <1>3, <1>4, <1>5, <1>6, <1>7, <1>8, <1>9

\* The position becomes EXITING, built from a copy that was OPEN.
LEMMA SetExitingStep ==
  ASSUME IInv, NEW t \in Threads, SetExiting(t)
  PROVE  IInv'
<1> USE DEF IInv
<1>1. TypeOK'
  <2>1. job[t].pos \in Positions /\ job[t].view \in Views
    BY DEF SetExiting, OperationsAreShaped, TypeOK, Jobs, Now
  <2>2. [status |-> "EXITING", stop |-> job[t].view.stop] \in Views
    BY <2>1 DEF Views
  <2> QED
    BY <2>2 DEF SetExiting, Goto, TypeOK, Steps, disk
<1>2. ExecutedAtMostOnce'
  BY DEF SetExiting, ExecutedAtMostOnce
<1>3. OperationsAreShaped'
  BY DEF Now, SetExiting, Goto, OperationsAreShaped
<1>4. ClaimsAreExclusive'
  BY DEF Key, disk, SetExiting, Goto, ClaimsAreExclusive, Claims, Registered
<1>5. EntryComesFirst'
  BY DEF Now, disk, SetExiting, Goto, OperationsAreShaped, EntryComesFirst, Filled
<1>6. RecordsFollowFills'
  BY DEF disk, SetExiting, Goto, RecordsFollowFills, Filled, Recording
<1>7. NothingOutlivesProcess'
  BY DEF Now, disk, SetExiting, NothingOutlivesProcess
<1>8. RunsOnConsistentJournal'
  BY DEF Now, Key, disk, SetExiting, Goto, RunsOnConsistentJournal
<1>9. OpenSurvivesRestart'
  BY DEF disk, SetExiting, OpenSurvivesRestart
<1> QED
  BY <1>1, <1>2, <1>3, <1>4, <1>5, <1>6, <1>7, <1>8, <1>9

\* The duplicate check gives nobody a claim.
LEMMA DuplicateCheckStep ==
  ASSUME IInv, NEW t \in Threads, DuplicateCheck(t)
  PROVE  IInv'
<1> USE DEF IInv
<1>1. TypeOK'
  BY NoJobIsTyped DEF DuplicateCheck, Goto, Finish, TypeOK, Steps, disk
<1>2. ExecutedAtMostOnce'
  BY DEF DuplicateCheck, ExecutedAtMostOnce
<1>3. OperationsAreShaped'
  BY DEF Now, DuplicateCheck, Goto, Finish, TypeOK, OperationsAreShaped
<1>4. ClaimsAreExclusive'
  <2>1. \A u \in Threads : Claims(u)' => Claims(u) /\ Key(u)' = Key(u)
    BY DEF DuplicateCheck, Claims, Key, TypeOK, Goto, Finish, Now
  <2>2. fills' = fills /\ Registered' = Registered
    BY DEF DuplicateCheck, Registered, disk
  <2> QED
    BY <2>1, <2>2 DEF ClaimsAreExclusive
<1>5. EntryComesFirst'
  BY DEF disk, DuplicateCheck, Goto, Finish, NoJob, TypeOK, EntryComesFirst, Filled
<1>6. RecordsFollowFills'
  BY DEF Now, disk, DuplicateCheck, Goto, Finish, TypeOK, RecordsFollowFills, Filled,
     Recording
<1>7. NothingOutlivesProcess'
  BY DEF Now, disk, DuplicateCheck, NothingOutlivesProcess
<1>8. RunsOnConsistentJournal'
  BY DEF Now, Key, disk, DuplicateCheck, Goto, Finish, TypeOK, RunsOnConsistentJournal
<1>9. OpenSurvivesRestart'
  BY DEF disk, DuplicateCheck, OpenSurvivesRestart
<1> QED
  BY <1>1, <1>2, <1>3, <1>4, <1>5, <1>6, <1>7, <1>8, <1>9

\* A blocked order is over.
LEMMA GateBlocksStep ==
  ASSUME IInv, NEW t \in Threads, GateBlocks(t)
  PROVE  IInv'
<1> USE DEF IInv
<1>1. TypeOK'
  BY NoJobIsTyped DEF GateBlocks, Finish, TypeOK, Steps, disk
<1>2. ExecutedAtMostOnce'
  BY DEF GateBlocks, ExecutedAtMostOnce
<1>3. OperationsAreShaped'
  BY DEF Now, GateBlocks, Finish, TypeOK, OperationsAreShaped
<1>4. ClaimsAreExclusive'
  BY DEF Key, disk, GateBlocks, Finish, TypeOK, ClaimsAreExclusive, Claims, Registered
<1>5. EntryComesFirst'
  BY DEF disk, GateBlocks, Finish, NoJob, TypeOK, EntryComesFirst, Filled
<1>6. RecordsFollowFills'
  BY DEF disk, GateBlocks, Finish, TypeOK, RecordsFollowFills, Filled, Recording
<1>7. NothingOutlivesProcess'
  BY DEF Now, disk, GateBlocks, NothingOutlivesProcess
<1>8. RunsOnConsistentJournal'
  BY DEF Now, Key, disk, GateBlocks, Finish, RunsOnConsistentJournal
<1>9. OpenSurvivesRestart'
  BY DEF disk, GateBlocks, OpenSurvivesRestart
<1> QED
  BY <1>1, <1>2, <1>3, <1>4, <1>5, <1>6, <1>7, <1>8, <1>9

\* An order refused by the database is over.
LEMMA RecordRaisesStep ==
  ASSUME IInv, NEW t \in Threads, RecordRaises(t)
  PROVE  IInv'
<1> USE DEF IInv
<1>1. TypeOK'
  BY NoJobIsTyped DEF RecordRaises, Finish, TypeOK, Steps, disk
<1>2. ExecutedAtMostOnce'
  BY DEF RecordRaises, ExecutedAtMostOnce
<1>3. OperationsAreShaped'
  BY DEF Now, RecordRaises, Finish, TypeOK, OperationsAreShaped
<1>4. ClaimsAreExclusive'
  BY DEF Key, disk, RecordRaises, Finish, TypeOK, ClaimsAreExclusive, Claims, Registered
<1>5. EntryComesFirst'
  BY DEF disk, RecordRaises, Finish, NoJob, TypeOK, EntryComesFirst, Filled
<1>6. RecordsFollowFills'
  BY DEF disk, RecordRaises, Finish, TypeOK, RecordsFollowFills, Filled, Recording
<1>7. NothingOutlivesProcess'
  BY DEF Now, RecordRaises, NothingOutlivesProcess
<1>8. RunsOnConsistentJournal'
  BY DEF Now, Key, disk, RecordRaises, Finish, RunsOnConsistentJournal
<1>9. OpenSurvivesRestart'
  BY DEF disk, RecordRaises, OpenSurvivesRestart
<1> QED
  BY <1>1, <1>2, <1>3, <1>4, <1>5, <1>6, <1>7, <1>8, <1>9

\* A key becomes stored; the thread that stored it first may claim it.
LEMMA PersistKeyStep ==
  ASSUME IInv, NEW t \in Threads, PersistKey(t)
  PROVE  IInv'
<1> USE DEF IInv
<1>1. TypeOK'
  BY NoJobIsTyped, KeyIsTyped DEF PersistKey, Goto, Finish, TypeOK, Steps, Now
<1>2. ExecutedAtMostOnce'
  BY DEF PersistKey, ExecutedAtMostOnce
<1>3. OperationsAreShaped'
  BY DEF Now, PersistKey, Goto, Finish, OwnsDatabase, TypeOK, OperationsAreShaped
<1>4. ClaimsAreExclusive'
  <2>0. Key(t) \in Keys
    BY KeyIsTyped DEF PersistKey, Now
  <2>1. CASE Key(t) \in seen
    BY <2>1, <2>0 DEF PersistKey, TypeOK, ClaimsAreExclusive, Claims, Registered, Key,
       Now, Finish, NoJob
  <2>2. CASE Key(t) \notin seen
    <3>1. /\ UNCHANGED <<job, fills, deployment>> /\ deployment = "service"
          /\ keys' = keys \cup {Key(t)}
          /\ \/ pc' = [pc EXCEPT ![t] = "known"]
             \/ Key(t) \notin keys /\ pc' = [pc EXCEPT ![t] = "memory"]
      BY <2>2 DEF PersistKey, Goto, OwnsDatabase
    <3>2. fills[Key(t)] = 0 \/ Key(t) \in keys
      BY <2>0, <3>1 DEF ClaimsAreExclusive, Registered, TypeOK
    <3>3. \A u \in Threads : Claims(u)' => Claims(u) \/ (u = t /\ Key(t) \notin keys)
      BY <3>1 DEF Claims, TypeOK
    <3>4. \A u \in Threads : Claims(u) => Key(u) \in keys
      BY <3>1 DEF ClaimsAreExclusive, Registered
    <3>5. \A u \in Threads : Key(u)' = Key(u)
      BY <3>1 DEF Key
    <3> QED
      BY <3>1, <3>2, <3>3, <3>4, <3>5 DEF ClaimsAreExclusive, Registered
  <2> QED
    BY <2>1, <2>2
<1>5. EntryComesFirst'
  BY SMTT(30) DEF Keys, PersistKey, Goto, Finish, NoJob, TypeOK, EntryComesFirst, Filled
<1>6. RecordsFollowFills'
  BY DEF PersistKey, Goto, Finish, TypeOK, RecordsFollowFills, Filled, Recording
<1>7. NothingOutlivesProcess'
  BY DEF Now, PersistKey, OwnsDatabase, NothingOutlivesProcess
<1>8. RunsOnConsistentJournal'
  BY DEF Now, PersistKey, OwnsDatabase, OperationsAreShaped, RunsOnConsistentJournal
<1>9. OpenSurvivesRestart'
  BY DEF PersistKey, OpenSurvivesRestart
<1> QED
  BY <1>1, <1>2, <1>3, <1>4, <1>5, <1>6, <1>7, <1>8, <1>9

\* A stored key enters memory: its claim turns into the right to fill.
LEMMA RegisterKeyStep ==
  ASSUME IInv, NEW t \in Threads, RegisterKey(t)
  PROVE  IInv'
<1> USE DEF IInv
<1>1. TypeOK'
  BY NoJobIsTyped, KeyIsTyped DEF RegisterKey, Goto, Finish, TypeOK, Steps, disk
<1>2. ExecutedAtMostOnce'
  BY DEF RegisterKey, ExecutedAtMostOnce
<1>3. OperationsAreShaped'
  BY DEF Now, RegisterKey, Goto, Finish, TypeOK, OperationsAreShaped
<1>4. ClaimsAreExclusive'
  <2>1. \A u \in Threads : Claims(u)' => Claims(u) /\ Key(u)' = Key(u)
    BY DEF RegisterKey, Claims, Key, TypeOK, Goto, Finish, Now
  <2>2. fills' = fills /\ Registered' = Registered
    BY DEF RegisterKey, Registered, OperationsAreShaped, disk
  <2> QED
    BY <2>1, <2>2 DEF ClaimsAreExclusive
<1>5. EntryComesFirst'
  <2>1. UNCHANGED <<tracker, snapshots, fills>>
    BY DEF RegisterKey, disk
  <2>2. \A u \in Threads : u # t => job'[u] = job[u] /\ pc'[u] = pc[u]
    BY DEF RegisterKey, Goto, Finish, TypeOK
  <2>3. /\ job'[t].kind = "none" \/ job'[t] = job[t]
        /\ pc'[t] \in {"fill", "idle"}
    BY DEF RegisterKey, Goto, Finish, NoJob, TypeOK
  <2> QED
    BY <2>1, <2>2, <2>3 DEF EntryComesFirst, Filled
<1>6. RecordsFollowFills'
  BY DEF disk, RegisterKey, Goto, Finish, TypeOK, RecordsFollowFills, Filled, Recording
<1>7. NothingOutlivesProcess'
  BY DEF RegisterKey, OperationsAreShaped, NothingOutlivesProcess
<1>8. RunsOnConsistentJournal'
  BY DEF Now, disk, RegisterKey, OperationsAreShaped, RunsOnConsistentJournal
<1>9. OpenSurvivesRestart'
  BY DEF disk, RegisterKey, OpenSurvivesRestart
<1> QED
  BY <1>1, <1>2, <1>3, <1>4, <1>5, <1>6, <1>7, <1>8, <1>9

\* In memory the test and the registration are one step: the claim is exclusive.
LEMMA RecordInMemoryStep ==
  ASSUME IInv, NEW t \in Threads, RecordInMemory(t)
  PROVE  IInv'
<1> USE DEF IInv
<1>1. TypeOK'
  BY NoJobIsTyped, KeyIsTyped DEF RecordInMemory, Goto, Finish, TypeOK, Steps, Now, disk
<1>2. ExecutedAtMostOnce'
  BY DEF RecordInMemory, ExecutedAtMostOnce
<1>3. OperationsAreShaped'
  BY DEF Now, RecordInMemory, Goto, Finish, TypeOK, OperationsAreShaped
<1>4. ClaimsAreExclusive'
  <2>0. Key(t) \in Keys
    BY KeyIsTyped DEF RecordInMemory, Now
  <2>1. UNCHANGED <<fills, deployment>> /\ deployment = "api" /\ seen' = seen \cup {Key(t)}
    BY DEF RecordInMemory, disk
  <2>2. fills[Key(t)] = 0 \/ Key(t) \in seen
    BY <2>0, <2>1 DEF ClaimsAreExclusive, Registered, TypeOK
  <2>3. \A u \in Threads : Claims(u)' =>
          Key(u)' = Key(u) /\ (Claims(u) \/ (u = t /\ Key(t) \notin seen))
    BY <2>1 DEF RecordInMemory, Claims, Key, TypeOK, Goto, Finish, Now
  <2>4. \A u \in Threads : Claims(u) => Key(u) \in seen
    BY <2>1 DEF ClaimsAreExclusive, Registered
  <2> QED
    BY <2>1, <2>2, <2>3, <2>4 DEF ClaimsAreExclusive, Registered
<1>5. EntryComesFirst'
  BY DEF Key, disk, RecordInMemory, Goto, Finish, NoJob, TypeOK, EntryComesFirst, Filled
<1>6. RecordsFollowFills'
  BY DEF disk, RecordInMemory, RecordsFollowFills
<1>7. NothingOutlivesProcess'
  BY DEF Now, disk, RecordInMemory, NothingOutlivesProcess
<1>8. RunsOnConsistentJournal'
  <2>1. events' = {}
    BY DEF RecordInMemory, NothingOutlivesProcess, disk
  <2> QED
    BY <2>1 DEF RunsOnConsistentJournal
<1>9. OpenSurvivesRestart'
  BY DEF RecordInMemory, OpenSurvivesRestart
<1> QED
  BY <1>1, <1>2, <1>3, <1>4, <1>5, <1>6, <1>7, <1>8, <1>9

\* A fill uses up the claim it rests on.
LEMMA FillStep ==
  ASSUME IInv, NEW t \in Threads, Fill(t)
  PROVE  IInv'
<1> USE DEF IInv
<1>1. TypeOK'
  BY KeyIsTyped DEF Fill, Goto, TypeOK, Steps, Now, disk
<1>2. ExecutedAtMostOnce'
  BY DEF Now, Fill, Claims, ClaimsAreExclusive, ExecutedAtMostOnce
<1>3. OperationsAreShaped'
  BY DEF Now, Fill, Goto, TypeOK, OperationsAreShaped
<1>4. ClaimsAreExclusive'
  <2>0. Key(t) \in Keys
    BY KeyIsTyped DEF Fill, Now
  <2>1. \A u \in Threads : Claims(u)' => Claims(u) /\ u # t
    BY DEF Fill, Claims, TypeOK, Goto, Now
  <2>2. \A u \in Threads : Key(u)' = Key(u)
    BY DEF Fill, Key, Goto
  <2>3. /\ Registered' = Registered /\ Key(t) \in Registered
        /\ fills' = [fills EXCEPT ![Key(t)] = @ + 1]
    BY DEF Fill, Registered, disk, ClaimsAreExclusive, Claims, Now
  <2>4. Claims(t)
    BY DEF Fill, Claims, Now
  <2>5. \A k \in Keys : fills'[k] > 0 => k \in Registered'
    BY <2>3, <2>0 DEF TypeOK, ClaimsAreExclusive
  <2>6. \A u \in Threads : Claims(u)' => Key(u)' # Key(t)
    BY <2>1, <2>2, <2>4 DEF ClaimsAreExclusive
  <2>7. \A u \in Threads : Claims(u)' =>
          Key(u)' \in Registered' /\ fills[Key(u)] = 0 /\ Key(u)' = Key(u)
    BY <2>1, <2>2, <2>3 DEF ClaimsAreExclusive
  <2>8. \A u \in Threads : Claims(u)' => fills'[Key(u)'] = 0
    <3> TAKE u \in Threads
    <3> HAVE Claims(u)'
    <3>1. Key(u) \in Keys
      BY <2>1, KeyIsTyped DEF Claims
    <3> QED
      BY <3>1, <2>3, <2>6, <2>7 DEF TypeOK
  <2> QED
    BY <2>1, <2>2, <2>5, <2>7, <2>8 DEF ClaimsAreExclusive
<1>5. EntryComesFirst'
  BY DEF Now, Key, Keys, disk, Fill, Goto, TypeOK, OperationsAreShaped, EntryComesFirst,
     Filled
<1>6. RecordsFollowFills'
  <2>0. Key(t) \in Keys
    BY KeyIsTyped DEF Fill, Now
  <2>1. fills' = [fills EXCEPT ![Key(t)] = @ + 1] /\ job' = job
    BY DEF Fill, Goto
  <2>2. \A k \in Keys : fills[k] > 0 => fills'[k] > 0
    BY <2>1, <2>0 DEF TypeOK
  <2>3. \A k \in events' : fills'[k] > 0
    BY <2>2 DEF Fill, disk, RecordsFollowFills, TypeOK
  <2>4. ASSUME deployment = "service", NEW u \in Threads, job[u].kind = "entry",
               pc'[u] \in {"adopt", "event", "snapshot"}
        PROVE  /\ ~Filled("exit", job[u].pos)'
               /\ Recording(u)' => tracker[job[u].pos].status \in {"OPEN", "EXITING"}
    <3>1. u = ScanThread /\ t = ScanThread
      BY <2>4, <2>1 DEF Fill, Goto, TypeOK, OperationsAreShaped, Now
    <3>2. fills[<<"entry", job[t].pos>>] = 0
      BY <2>4, <3>1 DEF Fill, ClaimsAreExclusive, Claims, Key, Now
    <3>3. job[t].pos \in Positions
      BY KeyIsTyped DEF Fill, Now
    <3>4. fills[<<"exit", job[t].pos>>] = 0
      BY <3>2, <3>3 DEF EntryComesFirst, Filled, TypeOK, Keys
    <3>5. ~Filled("exit", job[u].pos)'
      BY <3>1, <3>3, <3>4, <2>1, <2>4 DEF Filled, Key, Keys, TypeOK
    <3>6. pc'[u] = "adopt"
      BY <3>1, <2>4 DEF Fill, Goto, TypeOK
    <3> QED
      BY <3>5, <3>6 DEF Recording
  <2>5. deployment' = deployment /\ tracker' = tracker
    BY DEF Fill
  <2> QED
    BY <2>1, <2>3, <2>4, <2>5 DEF RecordsFollowFills
<1>7. NothingOutlivesProcess'
  BY DEF Now, disk, Fill, NothingOutlivesProcess
<1>8. RunsOnConsistentJournal'
  BY DEF Now, Key, disk, Fill, Goto, TypeOK, RunsOnConsistentJournal
<1>9. OpenSurvivesRestart'
  BY DEF disk, Fill, Goto, TypeOK, OpenSurvivesRestart
<1> QED
  BY <1>1, <1>2, <1>3, <1>4, <1>5, <1>6, <1>7, <1>8, <1>9

\* A filled entry is tracked.
LEMMA AdoptStep ==
  ASSUME IInv, NEW t \in Threads, Adopt(t)
  PROVE  IInv'
<1> USE DEF IInv
<1>1. TypeOK'
  <2>1. [status |-> "OPEN", stop |-> 0] \in Views
    BY BoundsAreNaturals DEF Views
  <2> QED
    BY <2>1, KeyIsTyped DEF Adopt, Goto, TypeOK, Steps, Now, disk
<1>2. ExecutedAtMostOnce'
  BY DEF Adopt, ExecutedAtMostOnce
<1>3. OperationsAreShaped'
  BY DEF Now, Adopt, Goto, OperationsAreShaped
<1>4. ClaimsAreExclusive'
  BY DEF Key, disk, Adopt, Goto, ClaimsAreExclusive, Claims, Registered
<1>5. EntryComesFirst'
  BY DEF Now, disk, Adopt, Goto, OperationsAreShaped, EntryComesFirst, Filled
<1>6. RecordsFollowFills'
  BY DEF Now, disk, Adopt, Goto, TypeOK, OperationsAreShaped, RecordsFollowFills, Filled
<1>7. NothingOutlivesProcess'
  BY DEF Now, disk, Adopt, NothingOutlivesProcess
<1>8. RunsOnConsistentJournal'
  BY DEF Now, Key, disk, Adopt, Goto, RunsOnConsistentJournal
<1>9. OpenSurvivesRestart'
  BY DEF disk, Adopt, OpenSurvivesRestart
<1> QED
  BY <1>1, <1>2, <1>3, <1>4, <1>5, <1>6, <1>7, <1>8, <1>9

\* A filled exit closes its position.
LEMMA CloseStep ==
  ASSUME IInv, NEW t \in Threads, Close(t)
  PROVE  IInv'
<1> USE DEF IInv
<1>1. TypeOK'
  <2>1. job[t].pos \in Positions /\ job[t].view \in Views
    BY DEF Close, OperationsAreShaped, TypeOK, Jobs, Now
  <2>2. [status |-> "CLOSED", stop |-> job[t].view.stop] \in Views
    BY <2>1 DEF Views
  <2> QED
    BY <2>2 DEF Close, Goto, TypeOK, Steps, disk
<1>2. ExecutedAtMostOnce'
  BY DEF Close, ExecutedAtMostOnce
<1>3. OperationsAreShaped'
  BY DEF Now, Close, Goto, OperationsAreShaped
<1>4. ClaimsAreExclusive'
  BY DEF Key, disk, Close, Goto, ClaimsAreExclusive, Claims, Registered
<1>5. EntryComesFirst'
  BY DEF Now, disk, Close, Goto, OperationsAreShaped, EntryComesFirst, Filled
<1>6. RecordsFollowFills'
  BY DEF Now, disk, Close, Goto, OperationsAreShaped, RecordsFollowFills
<1>7. NothingOutlivesProcess'
  BY DEF Now, disk, Close, NothingOutlivesProcess
<1>8. RunsOnConsistentJournal'
  BY DEF Now, Key, disk, Close, Goto, RunsOnConsistentJournal
<1>9. OpenSurvivesRestart'
  <2>1. fills[<<"exit", job[t].pos>>] > 0
    BY DEF Close, EntryComesFirst, OperationsAreShaped, Filled, Now
  <2>2. job[t].pos \in Positions
    BY DEF Close, OperationsAreShaped, Now
  <2> QED
    BY <2>1, <2>2 DEF Close, OpenSurvivesRestart, TypeOK, disk
<1> QED
  BY <1>1, <1>2, <1>3, <1>4, <1>5, <1>6, <1>7, <1>8, <1>9

\* An event is stored after its fill.
LEMMA PersistEventStep ==
  ASSUME IInv, NEW t \in Threads, PersistEvent(t)
  PROVE  IInv'
<1> USE DEF IInv
<1>1. TypeOK'
  BY KeyIsTyped DEF PersistEvent, Goto, TypeOK, Steps, Now
<1>2. ExecutedAtMostOnce'
  BY DEF PersistEvent, ExecutedAtMostOnce
<1>3. OperationsAreShaped'
  BY DEF Now, PersistEvent, Goto, OperationsAreShaped
<1>4. ClaimsAreExclusive'
  BY DEF Key, PersistEvent, Goto, ClaimsAreExclusive, Claims, Registered
<1>5. EntryComesFirst'
  BY DEF Now, PersistEvent, Goto, EntryComesFirst, Filled
<1>6. RecordsFollowFills'
  <2>1. Key(t) \in Keys /\ fills[Key(t)] > 0
    BY KeyIsTyped DEF PersistEvent, EntryComesFirst, Filled, Key, Now
  <2>2. \A k \in events' : fills'[k] > 0
    BY <2>1 DEF PersistEvent, RecordsFollowFills
  <2>3. UNCHANGED <<deployment, tracker, fills, job>>
    BY DEF PersistEvent, Goto
  <2>4. \A u \in Threads : pc'[u] = pc[u] \/ (pc[u] = "event" /\ pc'[u] = "snapshot")
    BY DEF PersistEvent, Goto, Now, TypeOK
  <2> QED
    BY <2>2, <2>3, <2>4 DEF RecordsFollowFills, Filled, Recording
<1>7. NothingOutlivesProcess'
  BY DEF Now, PersistEvent, OwnsDatabase, NothingOutlivesProcess
<1>8. RunsOnConsistentJournal'
  <2>1. fills[Key(t)] > 0
    BY DEF PersistEvent, EntryComesFirst, Filled, Key, Now
  <2>2. /\ pc' = [pc EXCEPT ![t] = "snapshot"] /\ events' \subseteq events \cup {Key(t)}
        /\ UNCHANGED <<job, fills, snapshots, status>>
    BY DEF PersistEvent, Goto
  <2>3. \A k \in events' : fills'[k] > 0
    BY <2>1, <2>2 DEF RunsOnConsistentJournal
  <2>4. \A u \in Threads : Key(u)' = Key(u) /\ (Now(u, "snapshot") => Now(u, "snapshot")')
    BY <2>2 DEF Key, Now, TypeOK
  <2>5. Now(t, "snapshot")'
    BY <2>2 DEF Now, TypeOK
  <2> QED
    BY <2>2, <2>3, <2>4, <2>5 DEF RunsOnConsistentJournal
<1>9. OpenSurvivesRestart'
  BY DEF PersistEvent, OpenSurvivesRestart
<1> QED
  BY <1>1, <1>2, <1>3, <1>4, <1>5, <1>6, <1>7, <1>8, <1>9

\* A snapshot is stored after its event.
LEMMA PersistSnapshotStep ==
  ASSUME IInv, NEW t \in Threads, PersistSnapshot(t)
  PROVE  IInv'
<1> USE DEF IInv
<1>1. TypeOK'
  BY NoJobIsTyped, KeyIsTyped DEF PersistSnapshot, Finish, TypeOK, Steps, Now
<1>2. ExecutedAtMostOnce'
  BY DEF PersistSnapshot, ExecutedAtMostOnce
<1>3. OperationsAreShaped'
  BY DEF Now, PersistSnapshot, Finish, TypeOK, OperationsAreShaped
<1>4. ClaimsAreExclusive'
  BY DEF Key, PersistSnapshot, Finish, TypeOK, ClaimsAreExclusive, Claims, Registered
<1>5. EntryComesFirst'
  BY DEF Now, PersistSnapshot, Finish, NoJob, TypeOK, OperationsAreShaped,
     EntryComesFirst, Filled
<1>6. RecordsFollowFills'
  BY DEF PersistSnapshot, Finish, TypeOK, RecordsFollowFills, Filled, Recording
<1>7. NothingOutlivesProcess'
  BY DEF Now, PersistSnapshot, OwnsDatabase, NothingOutlivesProcess
<1>8. RunsOnConsistentJournal'
  BY SnapshotFollowsFill
<1>9. OpenSurvivesRestart'
  BY SnapshotFollowsFill
<1> QED
  BY <1>1, <1>2, <1>3, <1>4, <1>5, <1>6, <1>7, <1>8, <1>9

\* A mark or ratchet starts from an active copy, so its trade was entered.
LEMMA BeginUpdateStep ==
  ASSUME IInv, NEW t \in Threads, NEW p \in Positions, NEW rungs \in {0, 1},
         BeginUpdate(t, p, rungs)
  PROVE  IInv'
<1> USE DEF IInv
<1>1. TypeOK'
  BY DEF disk, BeginUpdate, BeginAt, TypeOK, Jobs, Steps, Views
<1>2. ExecutedAtMostOnce'
  BY DEF BeginUpdate, ExecutedAtMostOnce
<1>3. OperationsAreShaped'
  <2>1. tracker[p].status = "OPEN"
    BY DEF TypeOK, Views, BeginUpdate, Active, Absent
  <2> QED
    BY <2>1 DEF TypeOK, Jobs, BeginUpdate, BeginAt, OperationsAreShaped, Now
<1>4. ClaimsAreExclusive'
  BY DEF Key, disk, BeginUpdate, BeginAt, TypeOK, ClaimsAreExclusive, Claims, Registered
<1>5. EntryComesFirst'
  <2>1. UNCHANGED <<tracker, snapshots, fills>>
    BY DEF BeginUpdate, disk
  <2>2. Filled("entry", p)
    BY DEF BeginUpdate, Active, Absent, EntryComesFirst
  <2>3. \A u \in Threads : u # t => job'[u] = job[u] /\ pc'[u] = pc[u]
    BY DEF BeginUpdate, BeginAt, TypeOK
  <2>4. job'[t].pos = p /\ pc'[t] = "write"
    BY DEF BeginUpdate, BeginAt, TypeOK
  <2> QED
    BY <2>1, <2>2, <2>3, <2>4 DEF EntryComesFirst, Filled
<1>6. RecordsFollowFills'
  BY DEF disk, BeginUpdate, BeginAt, RecordsFollowFills, Filled, Recording
<1>7. NothingOutlivesProcess'
  BY DEF disk, BeginUpdate, NothingOutlivesProcess
<1>8. RunsOnConsistentJournal'
  BY DEF Now, Key, disk, BeginUpdate, BeginAt, RunsOnConsistentJournal
<1>9. OpenSurvivesRestart'
  BY DEF disk, BeginUpdate, OpenSurvivesRestart
<1> QED
  BY <1>1, <1>2, <1>3, <1>4, <1>5, <1>6, <1>7, <1>8, <1>9

\* A write-back stores a copy that was OPEN, of a trade that was entered.
LEMMA WriteBackStep ==
  ASSUME IInv, NEW t \in Threads, WriteBack(t)
  PROVE  IInv'
<1> USE DEF IInv
<1>1. TypeOK'
  BY NoJobIsTyped DEF WriteBack, Finish, TypeOK, Steps, Now, disk, Jobs,
     OperationsAreShaped
<1>2. ExecutedAtMostOnce'
  BY DEF WriteBack, ExecutedAtMostOnce
<1>3. OperationsAreShaped'
  BY DEF Now, WriteBack, Finish, TypeOK, OperationsAreShaped
<1>4. ClaimsAreExclusive'
  BY DEF Key, disk, WriteBack, Finish, TypeOK, ClaimsAreExclusive, Claims, Registered
<1>5. EntryComesFirst'
  <2>1. /\ job[t].pos \in Positions /\ job[t].view.status = "OPEN"
        /\ Filled("entry", job[t].pos)
    BY DEF WriteBack, OperationsAreShaped, EntryComesFirst, Now
  <2>2. /\ tracker' = [tracker EXCEPT ![job[t].pos] = job[t].view]
        /\ UNCHANGED <<snapshots, fills>>
    BY DEF WriteBack, disk
  <2>3. \A p \in Positions :
          /\ tracker'[p].status # Absent => Filled("entry", p)
          /\ tracker'[p].status = "CLOSED" => Filled("exit", p)
    BY <2>1, <2>2 DEF EntryComesFirst, TypeOK
  <2>4. \A u \in Threads : u # t => job'[u] = job[u] /\ pc'[u] = pc[u]
    BY DEF WriteBack, Finish, TypeOK
  <2>5. job'[t].kind = "none" /\ pc'[t] = "idle"
    BY DEF WriteBack, Finish, NoJob, TypeOK
  <2> QED
    BY <2>2, <2>3, <2>4, <2>5 DEF EntryComesFirst, Filled
<1>6. RecordsFollowFills'
  BY DEF Now, disk, WriteBack, Finish, OperationsAreShaped, RecordsFollowFills, Filled,
     Recording
<1>7. NothingOutlivesProcess'
  BY DEF Now, disk, WriteBack, NothingOutlivesProcess
<1>8. RunsOnConsistentJournal'
  BY DEF Now, Key, disk, WriteBack, Finish, RunsOnConsistentJournal
<1>9. OpenSurvivesRestart'
  BY DEF Now, disk, WriteBack, OperationsAreShaped, OpenSurvivesRestart
<1> QED
  BY <1>1, <1>2, <1>3, <1>4, <1>5, <1>6, <1>7, <1>8, <1>9

\* A crash keeps what is stored and throws away what is held.
LEMMA CrashStep ==
  ASSUME IInv, Crash
  PROVE  IInv'
<1> USE DEF IInv
<1>1. TypeOK'
  BY NoJobIsTyped, BoundsAreNaturals DEF Crash, TypeOK, Steps, disk
<1>2. ExecutedAtMostOnce'
  BY DEF Crash, ExecutedAtMostOnce
<1>3. OperationsAreShaped'
  BY DEF Crash, OperationsAreShaped
<1>4. ClaimsAreExclusive'
  BY DEF disk, Crash, TypeOK, ClaimsAreExclusive, Claims, Registered
<1>5. EntryComesFirst'
  BY CrashKeepsHistory
<1>6. RecordsFollowFills'
  BY CrashKeepsHistory
<1>7. NothingOutlivesProcess'
  BY DEF Now, disk, Crash, NothingOutlivesProcess
<1>8. RunsOnConsistentJournal'
  BY CrashKeepsHistory
<1>9. OpenSurvivesRestart'
  BY DEF Crash, OpenSurvivesRestart
<1> QED
  BY <1>1, <1>2, <1>3, <1>4, <1>5, <1>6, <1>7, <1>8, <1>9

\* A start reads the journal back, and only a complete one.
LEMMA StartStep ==
  ASSUME IInv, Start
  PROVE  IInv'
<1> USE DEF IInv
<1>1. TypeOK'
  <2>1. Recovered \in [Positions -> Views]
    BY NoJobIsTyped, BoundsAreNaturals DEF Recovered, Views
  <2> QED
    BY <2>1 DEF Start, TypeOK
<1>2. ExecutedAtMostOnce'
  BY DEF Start, ExecutedAtMostOnce
<1>3. OperationsAreShaped'
  BY DEF Start, OperationsAreShaped
<1>4. ClaimsAreExclusive'
  BY StartKeepsHistory
<1>5. EntryComesFirst'
  BY StartKeepsHistory
<1>6. RecordsFollowFills'
  BY DEF Start, OperationsAreShaped, RecordsFollowFills
<1>7. NothingOutlivesProcess'
  BY DEF Start, NothingOutlivesProcess
<1>8. RunsOnConsistentJournal'
  BY DEF Start, UnmatchedEvents, RunsOnConsistentJournal
<1>9. OpenSurvivesRestart'
  BY DEF Start, Recovered, OpenSurvivesRestart
<1> QED
  BY <1>1, <1>2, <1>3, <1>4, <1>5, <1>6, <1>7, <1>8, <1>9

\* A refused start changes nothing but the status.
LEMMA RefuseStep ==
  ASSUME IInv, Refuse
  PROVE  IInv'
<1> USE DEF IInv
<1>1. TypeOK'
  BY DEF disk, Refuse, TypeOK
<1>2. ExecutedAtMostOnce'
  BY DEF Refuse, ExecutedAtMostOnce
<1>3. OperationsAreShaped'
  BY DEF Refuse, OperationsAreShaped
<1>4. ClaimsAreExclusive'
  BY DEF disk, Refuse, OperationsAreShaped, ClaimsAreExclusive, Claims, Registered
<1>5. EntryComesFirst'
  BY DEF disk, Refuse, EntryComesFirst, Filled
<1>6. RecordsFollowFills'
  BY DEF disk, Refuse, RecordsFollowFills, Filled, Recording
<1>7. NothingOutlivesProcess'
  BY DEF Now, disk, Refuse, NothingOutlivesProcess
<1>8. RunsOnConsistentJournal'
  BY DEF disk, Refuse, RunsOnConsistentJournal
<1>9. OpenSurvivesRestart'
  BY DEF Refuse, OpenSurvivesRestart
<1> QED
  BY <1>1, <1>2, <1>3, <1>4, <1>5, <1>6, <1>7, <1>8, <1>9
-----------------------------------------------------------------------------
(* The inductive invariant and what follows from it.                       *)

\* IInv holds before the process was ever started.
LEMMA InitIInv == Init => IInv
<1> SUFFICES ASSUME Init PROVE IInv
  OBVIOUS
<1> USE NoJobIsTyped, BoundsAreNaturals DEF Init
<1>1. TypeOK
  BY DEF TypeOK, Steps
<1>2. ExecutedAtMostOnce /\ OperationsAreShaped /\ NothingOutlivesProcess
  BY DEF ExecutedAtMostOnce, OperationsAreShaped, NothingOutlivesProcess, Now
<1>3. ClaimsAreExclusive
  BY DEF ClaimsAreExclusive, Claims
<1>4. EntryComesFirst /\ RecordsFollowFills
  BY DEF EntryComesFirst, RecordsFollowFills, Filled, Nothing, NoJob, Absent, Keys
<1>5. RunsOnConsistentJournal /\ OpenSurvivesRestart
  BY DEF RunsOnConsistentJournal, OpenSurvivesRestart
<1> QED
  BY <1>1, <1>2, <1>3, <1>4, <1>5 DEF IInv

\* A stuttering step preserves it.
LEMMA StutterStep ==
  ASSUME IInv, UNCHANGED vars
  PROVE  IInv'
BY DEF IInv, vars, disk, TypeOK, ExecutedAtMostOnce, OperationsAreShaped,
   ClaimsAreExclusive,
       Claims, Registered, EntryComesFirst, Filled, RecordsFollowFills, Recording,
       NothingOutlivesProcess, RunsOnConsistentJournal, OpenSurvivesRestart, Now, Key

\* The inductive step: one case per action.
LEMMA NextIInv == IInv /\ [Next]_vars => IInv'
<1> SUFFICES ASSUME IInv, [Next]_vars PROVE IInv'
  OBVIOUS
<1>1. ASSUME NEW p \in Positions, BeginEntry(p) PROVE IInv'
  BY <1>1, BeginEntryStep
<1>2. ASSUME NEW t \in Threads, Execute(t) PROVE IInv'
  BY <1>2, DuplicateCheckStep, GateBlocksStep, RecordRaisesStep, PersistKeyStep,
     RegisterKeyStep, RecordInMemoryStep, FillStep DEF Execute
<1>3. ASSUME NEW t \in Threads, Settle(t) PROVE IInv'
  BY <1>3, SetExitingStep, AdoptStep, CloseStep, PersistEventStep, PersistSnapshotStep,
     WriteBackStep DEF Settle
<1>4. ASSUME NEW t \in Threads, NEW p \in Positions, Begin(t, p) PROVE IInv'
  BY <1>4, BeginCloseStep, BeginUpdateStep DEF Begin
<1>5. CASE Crash \/ Start \/ Refuse
  BY <1>5, CrashStep, StartStep, RefuseStep
<1>6. CASE UNCHANGED vars
  BY <1>6, StutterStep
<1> QED
  BY <1>1, <1>2, <1>3, <1>4, <1>5, <1>6 DEF Next

\* Every reachable state satisfies the inductive invariant: the steps of
\* danger_manager, oem, idempotency, position_tracker, engine and recovery keep it.
THEOREM Inductive == Spec => []IInv
BY InitIInv, NextIInv, PTL DEF Spec

\* Type correctness, for every set of trades and threads.
THEOREM TypeCorrect == Spec => []TypeOK
<1>1. IInv => TypeOK
  BY DEF IInv
<1> QED
  BY <1>1, Inductive, PTL

\* No order is filled twice: two threads closing one position, a retry after a
\* refusal, and a restart between any two steps all find the key taken.
THEOREM AtMostOnce == Spec => []ExecutedAtMostOnce
<1>1. IInv => ExecutedAtMostOnce
  BY DEF IInv
<1> QED
  BY <1>1, Inductive, PTL

\* An engine that is up runs on a journal without half-recorded exits, and the
\* journal names no execution that did not happen.
THEOREM ConsistentJournal == Spec => []RunsOnConsistentJournal
<1>1. IInv => RunsOnConsistentJournal
  BY DEF IInv
<1> QED
  BY <1>1, Inductive, PTL

\* No stored position that is still to be sold is lost by a restart.
THEOREM NoPositionLost == Spec => []OpenSurvivesRestart
<1>1. IInv => OpenSurvivesRestart
  BY DEF IInv
<1> QED
  BY <1>1, Inductive, PTL

-----------------------------------------------------------------------------
(* The pipeline implements ExecuteOnce.                                    *)

\* Only two steps change the account of fills: the adapter's, and the end of an
\* api process.
LEMMA FillsChange ==
  ASSUME IInv, [Next]_vars
  PROVE  \/ UNCHANGED <<deployment, fills>>
         \/ \E t \in Threads : Fill(t)
         \/ Crash
<1>1. ASSUME NEW p \in Positions, BeginEntry(p) PROVE UNCHANGED <<deployment, fills>>
  BY <1>1 DEF BeginEntry
<1>2. ASSUME NEW t \in Threads, Execute(t), ~Fill(t) PROVE UNCHANGED <<deployment, fills>>
  BY <1>2 DEF Execute, DuplicateCheck, GateBlocks, RecordRaises, PersistKey, RegisterKey,
     RecordInMemory
<1>3. ASSUME NEW t \in Threads, Settle(t) PROVE UNCHANGED <<deployment, fills>>
  BY <1>3 DEF Settle, SetExiting, Adopt, Close, PersistEvent, PersistSnapshot, WriteBack
<1>4. ASSUME NEW t \in Threads, NEW p \in Positions, Begin(t, p)
      PROVE  UNCHANGED <<deployment, fills>>
  BY <1>4 DEF Begin, BeginClose, BeginUpdate
<1>5. CASE Start \/ Refuse
  BY <1>5 DEF Start, Refuse
<1>6. CASE UNCHANGED vars
  BY <1>6 DEF vars
<1> QED
  BY <1>1, <1>2, <1>3, <1>4, <1>5, <1>6 DEF Next

\* A fill is the abstract entry or the abstract exit of its trade.
LEMMA FillRefines ==
  ASSUME IInv, NEW t \in Threads, Fill(t)
  PROVE  Abstract!Next
<1> USE DEF IInv
<1> DEFINE p == job[t].pos
<1>1. p \in Positions /\ job[t].kind \in {"entry", "exit"} /\ Key(t) \in Keys
  BY KeyIsTyped DEF Fill, Now
<1>2. fills[Key(t)] = 0
  BY DEF Fill, ClaimsAreExclusive, Claims, Now
<1>3. fills' = [fills EXCEPT ![Key(t)] = 1] /\ UNCHANGED (deployment = "service")
  BY <1>1, <1>2 DEF Fill, TypeOK
<1>4. CASE job[t].kind = "entry"
  <2>1. Abstract!Enter(p)
    BY <1>2, <1>3, <1>4 DEF Abstract!Enter, Key
  <2> QED
    BY <2>1, <1>1 DEF Abstract!Next
<1>5. CASE job[t].kind = "exit"
  <2>1. fills[<<"entry", p>>] > 0
    BY <1>5 DEF EntryComesFirst, Filled
  <2>2. fills[<<"entry", p>>] = 1
    BY <2>1, <1>1 DEF ExecutedAtMostOnce, TypeOK, Keys
  <2>3. Abstract!Exit(p)
    BY <1>2, <1>3, <1>5, <2>2 DEF Abstract!Exit, Key
  <2> QED
    BY <2>3, <1>1 DEF Abstract!Next
<1> QED
  BY <1>1, <1>4, <1>5

\* Every behaviour of the pipeline is a behaviour of ExecuteOnce: entered at most
\* once, left at most once and only after being entered, across restarts where
\* keys are stored.
THEOREM Refinement == Spec => ImplementsExecuteOnce
<1>1. Init => Abstract!Init
  BY DEF Init, Abstract!Init, Abstract!Orders, Keys
<1>2. IInv /\ [Next]_vars => [Abstract!Next]_(Abstract!vars)
  <2> SUFFICES ASSUME IInv, [Next]_vars PROVE [Abstract!Next]_(Abstract!vars)
    OBVIOUS
  <2>1. CASE UNCHANGED <<deployment, fills>>
    BY <2>1 DEF Abstract!vars
  <2>2. ASSUME NEW t \in Threads, Fill(t) PROVE Abstract!Next
    BY <2>2, FillRefines
  <2>3. CASE Crash /\ deployment = "api"
    BY <2>3 DEF Crash, Abstract!Next, Abstract!Forget, Abstract!Orders, Keys
  <2>4. CASE Crash /\ deployment = "service"
    BY <2>4 DEF Crash, Abstract!vars
  <2> QED
    BY <2>1, <2>2, <2>3, <2>4, FillsChange DEF IInv, TypeOK
<1> QED
  BY <1>1, <1>2, Inductive, PTL DEF Spec, ImplementsExecuteOnce, Abstract!Spec
===============================================================================
