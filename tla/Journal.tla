-------------------------------- MODULE Journal --------------------------------
(***************************************************************************)
(* The rows of the persistent journal of the service deployment.  Every    *)
(* snapshot of a position is a row that carries the wall clock's time, and *)
(* the row with the latest time is the position; executed orders are rows  *)
(* of their own, and their keys are in the guard's database.  A write that *)
(* fails is noted and dropped.  The clock may be set back.                 *)
(***************************************************************************)
EXTENDS Integers

CONSTANTS Trades,
          MaxStamp,       \* bound: times of the wall clock
          MaxFailedWrites \* bound

ASSUME JournalConstants == MaxStamp \in Nat /\ MaxFailedWrites \in Nat

VARIABLES wall,
          process,     \* "down", "up", or "refused" by its recovery
          trackedOpen, \* positions the tracker holds open
          guarded,     \* orders whose idempotency keys are stored
          logged,      \* executed orders with an event row
          rows,        \* snapshot rows
          writing,     \* the writes ahead of the thread that traded
          reopened,    \* history: what the last recovery brought back and was not sold since
          failedWrites \* history

journalVars == <<wall, process, trackedOpen, guarded, logged, rows, writing, reopened, failedWrites>>

Orders == {"entry", "exit"} \X Trades
NoWrites == [todo |-> "nothing"]

JournalInit ==
  /\ wall = 0 /\ process = "up"
  /\ trackedOpen = {} /\ guarded = {} /\ logged = {} /\ rows = {}
  /\ writing = NoWrites /\ reopened = {} /\ failedWrites = 0

\* The order passes the guard, fills and changes the tracker; its writes follow.
Trade(order) ==
  /\ order \notin guarded /\ guarded' = guarded \cup {order}
  /\ writing' = [todo |-> "event", order |-> order]

EnterTrade(t) ==
  /\ process = "up" /\ writing = NoWrites
  /\ Trade(<<"entry", t>>)
  /\ trackedOpen' = trackedOpen \cup {t}
  /\ UNCHANGED <<wall, process, logged, rows, reopened, failedWrites>>

\* An exit that the guard or another gate refuses leaves the position EXITING for ever.
ExitTrade(t) ==
  /\ process = "up" /\ writing = NoWrites /\ t \in trackedOpen
  /\ trackedOpen' = trackedOpen \ {t}
  /\ \/ Trade(<<"exit", t>>) /\ reopened' = reopened \ {t}
     \/ UNCHANGED <<guarded, writing, reopened>>
  /\ UNCHANGED <<wall, process, logged, rows, failedWrites>>

\* A write fails without a trace in the database.
Fails == failedWrites < MaxFailedWrites /\ failedWrites' = failedWrites + 1

AppendEvent ==
  /\ writing.todo = "event" /\ writing' = [writing EXCEPT !.todo = "snapshot"]
  /\ \/ logged' = logged \cup {writing.order} /\ UNCHANGED failedWrites
     \/ Fails /\ UNCHANGED logged
  /\ UNCHANGED <<wall, process, trackedOpen, guarded, rows, reopened>>

Row(order) ==
  [trade |-> order[2], status |-> IF order[1] = "entry" THEN "OPEN" ELSE "CLOSED", at |-> wall]

AppendSnapshot ==
  /\ writing.todo = "snapshot" /\ writing' = NoWrites
  /\ \/ rows' = rows \cup {Row(writing.order)} /\ UNCHANGED failedWrites
     \/ Fails /\ UNCHANGED rows
  /\ UNCHANGED <<wall, process, trackedOpen, guarded, logged, reopened>>

ClockIsSet ==
  /\ wall' \in 0..MaxStamp
  /\ UNCHANGED <<process, trackedOpen, guarded, logged, rows, writing, reopened, failedWrites>>

\* A refused process is started again as well: the operator repairs nothing here.
ProcessDies ==
  /\ process \in {"up", "refused"} /\ process' = "down"
  /\ trackedOpen' = {} /\ writing' = NoWrites /\ reopened' = {}
  /\ UNCHANGED <<wall, guarded, logged, rows, failedWrites>>

-----------------------------------------------------------------------------
(* Recovery.                                                               *)

\* The rows of a position with its latest time: more than one when times are equal.
LastRows(t) == {r \in rows : r.trade = t /\ \A s \in rows : s.trade = t => s.at <= r.at}

\* latest_position_snapshots: the positions with a last row that is not CLOSED.
LatestSnapshots == {t \in Trades : \E r \in LastRows(t) : r.status # "CLOSED"}

\* all_positions, read into a map by position: of rows with equal times the last one
\* the database returns counts.
Readings ==
  {status \in [Trades -> {"NONE", "OPEN", "CLOSED"}] :
     \A t \in Trades : IF LastRows(t) = {} THEN status[t] = "NONE"
                       ELSE \E r \in LastRows(t) : status[t] = r.status}

\* Mutant of Unmatched: any row of the position accounts for its exit.
UnmatchedWithoutRow(status) == {o \in logged : status[o[2]] = "NONE"}

\* _find_unmatched_executed_events: orders without a row, and exits without a CLOSED one.
Unmatched(status) ==
  {o \in logged : \/ status[o[2]] = "NONE"
                  \/ o[1] = "exit" /\ status[o[2]] # "CLOSED"}

\* _reconstruct_idempotency: executed orders are in the guard again.
Reconstructed == guarded \cup logged

\* _crash_recover, before any thread starts.
Recover ==
  /\ process = "down"
  /\ guarded' = Reconstructed
  /\ \E status \in Readings :
       IF Unmatched(status) = {}
       THEN process' = "up" /\ trackedOpen' = LatestSnapshots /\ reopened' = LatestSnapshots
       ELSE process' = "refused" /\ UNCHANGED <<trackedOpen, reopened>>
  /\ UNCHANGED <<wall, logged, rows, writing, failedWrites>>

JournalNext ==
  \/ \E t \in Trades : EnterTrade(t) \/ ExitTrade(t)
  \/ AppendEvent \/ AppendSnapshot \/ ClockIsSet \/ ProcessDies \/ Recover

JournalSpec == JournalInit /\ [][JournalNext]_journalVars

-----------------------------------------------------------------------------
(* Properties.                                                             *)

JournalTypeOK ==
  /\ wall \in 0..MaxStamp /\ process \in {"up", "down", "refused"}
  /\ {trackedOpen, reopened} \subseteq SUBSET Trades
  /\ guarded \subseteq Orders /\ logged \subseteq guarded
  /\ rows \subseteq [trade : Trades, status : {"OPEN", "CLOSED"}, at : 0..MaxStamp]
  /\ writing.todo \in {"nothing", "event", "snapshot"}
  /\ failedWrites \in 0..MaxFailedWrites

\* Its rows do not say in which order they were written.
Tied(t) == \E r, s \in rows : r.trade = t /\ s.trade = t /\ r # s /\ r.at = s.at

\* A restart brings back no position whose sale any record shows: neither when the
\* clock was set back between the rows, nor when one of the two writes of the sale
\* failed, nor when the process died between them.  Rows with equal times, and a sale
\* that lost its event and was stored under an earlier time, are beyond the journal.
SoldStaysSold ==
  \A t \in reopened :
    ~Tied(t) => /\ <<"exit", t>> \notin logged
                /\ \A c, o \in rows :
                        {c.trade, o.trade} = {t} /\ <<c.status, o.status>> = <<"CLOSED", "OPEN">>
                        => c.at < o.at
===============================================================================
