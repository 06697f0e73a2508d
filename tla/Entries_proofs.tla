---------------------------- MODULE Entries_proofs -----------------------------
(***************************************************************************)
(* Proofs about Entries, for any symbols, setups, limits and equities, and *)
(* any number of days and restarts: EntryInv is inductive.                 *)
(***************************************************************************)
EXTENDS Entries, Sums, FiniteSetTheorems, TLAPS

ScanFields == {"pc", "todo", "sig", "late", "equity", "gated", "count", "notional", "loss"}

\* The types that the properties rest on; what a sum of notionals is plays no part.
Types ==
  /\ api \in BOOLEAN /\ now \in Nat /\ day \in Nat /\ equity \in Nat
  /\ base \in [day : Int, equity : Nat] /\ meta \in [day : Int, equity : Nat]
  /\ breaker \in BOOLEAN
  /\ pos \in [Signals -> [status : Statuses, at : Nat]]
  /\ DOMAIN scan = ScanFields
  /\ scan.pc \in {"idle", "managing", "scanning", "gate", "sized", "order"}
  /\ scan.equity \in Nat /\ scan.count \in Nat
  /\ history \in [first : Nat, forgotten : BOOLEAN, returned : SUBSET Signals]

\* A signal is judged with its equity; between signals nothing is remembered of one.
SignalInv ==
  /\ scan.pc \in {"gate", "sized", "order"} => scan.sig \in Signals /\ scan.equity # 0
  /\ scan.pc \notin {"gate", "sized", "order"} => scan.late = FALSE /\ scan.gated = FALSE

\* A tripped breaker stays, and the gate asks it.
BreakerInv == scan.late = TRUE => breaker = TRUE /\ scan.gated = FALSE

\* Baselines are of the past or of today; today's is the first of the day until a
\* restart had to forget it, and so is the stored one.
BaselineInv ==
  /\ base.day <= day /\ meta.day <= day /\ meta.equity # 0
  /\ base.day = day /\ base.equity # 0 => history.first # 0
  /\ meta.day = day => history.first # 0
  /\ history.first # 0 /\ ~history.forgotten =>
       /\ base.day = day /\ base.equity = history.first
       /\ meta.day = day => meta.equity = history.first

\* The loss that the guardian saw is against the first baseline of the day.
LossInv ==
  scan.pc = "order" /\ history.first # 0 /\ ~history.forgotten =>
    (AtLoss(history.first, scan.equity, KillLoss) => scan.loss = TRUE)

\* The count that the guardian saw is an upper bound until the order fills.
CountInv ==
  /\ CountLimited
  /\ scan.pc = "order" => Cardinality(Open) <= scan.count

EntryInv == Types /\ SignalInv /\ BreakerInv /\ BaselineInv /\ LossInv /\ CountInv

-----------------------------------------------------------------------------
(* Values.                                                                 *)

\* A thread at rest.
LEMMA IdleScan ==
  /\ DOMAIN Idle = ScanFields
  /\ Idle.pc = "idle" /\ Idle.late = FALSE /\ Idle.gated = FALSE
  /\ Idle.equity \in Nat /\ Idle.count \in Nat
BY DEF Idle, ScanFields

\* There are finitely many signals, so their positions can be counted.
LEMMA SignalsAreFinite ==
  ASSUME NEW S \in SUBSET Signals
  PROVE  IsFiniteSet(S) /\ Cardinality(S) \in Nat
<1>1. IsFiniteSet(0..MaxTime)
  BY EntryConstants, FS_Interval
<1>2. IsFiniteSet(Signals)
  BY <1>1, EntryConstants, FS_Product DEF Signals
<1> QED
  BY <1>2, FS_Subset, FS_CardinalityType

\* A smaller set of open positions counts less.
LEMMA SmallerCounts ==
  ASSUME NEW S \in SUBSET Signals, NEW T \in SUBSET S
  PROVE  Cardinality(T) <= Cardinality(S)
BY SignalsAreFinite, FS_Subset

\* A loss needs a baseline.
LEMMA NoBaselineNoLoss ==
  ASSUME NEW e \in Nat
  PROVE  ~AtLoss(0, e, KillLoss)
BY DEF AtLoss

-----------------------------------------------------------------------------
(* What many steps have in common.                                         *)

\* A step that opens nothing, takes no baseline, and leaves the scan's order alone.
LEMMA QuietStep ==
  ASSUME EntryInv, UNCHANGED <<api, day, base, meta, history>>,
         now' \in Nat, equity' \in Nat, breaker' \in BOOLEAN,
         pos' \in [Signals -> [status : Statuses, at : Nat]], Open' \subseteq Open,
         DOMAIN scan' = ScanFields,
         scan'.pc \in {"idle", "managing", "scanning", "gate", "sized", "order"},
         scan'.equity \in Nat, scan'.count \in Nat,
         SignalInv', BreakerInv', scan'.pc = "order" => scan' = scan
  PROVE  EntryInv'
<1>1. Types'
  BY DEF EntryInv, Types
<1>2. BaselineInv'
  BY DEF EntryInv, BaselineInv
<1>3. LossInv'
  BY DEF EntryInv, LossInv, AtLoss
<1>4. Kept' \subseteq Kept /\ Open \in SUBSET Signals /\ Kept \in SUBSET Signals
  BY DEF Kept, Open
<1>5. Cardinality(Kept') <= Cardinality(Kept) /\ Cardinality(Open') <= Cardinality(Open)
  BY <1>4, SmallerCounts
<1>6. Cardinality(Kept) \in Nat /\ Cardinality(Open) \in Nat /\ Cardinality(Kept') \in Nat
      /\ Cardinality(Open') \in Nat
  BY <1>4, SignalsAreFinite
<1>7. MaxPositions[api] \in Nat
  BY EntryConstants DEF EntryInv, Types
<1>8. CountInv'
  BY <1>5, <1>6, <1>7 DEF EntryInv, Types, CountInv, CountLimited
<1> QED
  BY <1>1, <1>2, <1>3, <1>8 DEF EntryInv

\* A step of the scan thread with the world at rest.
LEMMA ScanMoves ==
  ASSUME EntryInv, UNCHANGED <<api, now, day, equity, base, meta, breaker, pos, history>>,
         DOMAIN scan' = ScanFields,
         scan'.pc \in {"idle", "managing", "scanning", "gate", "sized"},
         scan'.equity \in Nat, scan'.count \in Nat,
         SignalInv', BreakerInv'
  PROVE  EntryInv'
<1>1. Open' = Open
  BY DEF Open
<1> QED
  BY <1>1, QuietStep DEF EntryInv, Types

\* The scan goes back to the symbols with nothing in hand.
LEMMA BackToScanMoves ==
  ASSUME EntryInv, scan' = BackToScan \/ scan' = Idle,
         UNCHANGED <<api, now, day, equity, base, meta, breaker, pos, history>>
  PROVE  EntryInv'
<1>1. /\ DOMAIN scan' = ScanFields
      /\ scan'.pc \in {"idle", "scanning"} /\ scan'.late = FALSE /\ scan'.gated = FALSE
      /\ scan'.equity \in Nat /\ scan'.count \in Nat
  BY IdleScan DEF BackToScan, Idle, ScanFields
<1>2. SignalInv' /\ BreakerInv'
  BY <1>1 DEF SignalInv, BreakerInv
<1> QED
  BY <1>1, <1>2, ScanMoves

-----------------------------------------------------------------------------
(* Baselines.                                                              *)

\* A baseline is taken when the day has none: it is the first of the day, unless a
\* restart has forgotten that one.
LEMMA RegisterKeepsBaselines ==
  ASSUME EntryInv, NEW e \in Nat, e # 0, base.day # day \/ base.equity = 0, Register(e),
         UNCHANGED day,
         meta' = meta \/ meta' = [day |-> day, equity |-> e]
  PROVE  /\ BaselineInv'
         /\ base' \in [day : Int, equity : Nat] /\ meta' \in [day : Int, equity : Nat]
         /\ history' \in [first : Nat, forgotten : BOOLEAN, returned : SUBSET Signals]
         /\ history'.returned = history.returned /\ history'.first # 0
         /\ ~history'.forgotten => base'.equity = history'.first
<1>1. /\ base' = [day |-> day, equity |-> e]
      /\ history' = IF history.first = 0 THEN [history EXCEPT !.first = e] ELSE history
  BY DEF Register
<1>2. /\ history' \in [first : Nat, forgotten : BOOLEAN, returned : SUBSET Signals]
      /\ history'.returned = history.returned /\ history'.forgotten = history.forgotten
      /\ history'.first = IF history.first = 0 THEN e ELSE history.first
  BY <1>1 DEF EntryInv, Types
<1>3. base' \in [day : Int, equity : Nat] /\ meta' \in [day : Int, equity : Nat]
  BY <1>1 DEF EntryInv, Types
<1>4. history.first # 0 => history.forgotten
  BY DEF EntryInv, BaselineInv, Types
<1>5. history.first = 0 => meta.day # day
  BY DEF EntryInv, BaselineInv
<1>6. BaselineInv'
  BY <1>1, <1>2, <1>4, <1>5 DEF EntryInv, Types, BaselineInv
<1> QED
  BY <1>1, <1>2, <1>3, <1>4, <1>6

\* The tick starts the scan's round; it may take the day's baseline or trip the switch.
LEMMA TickStep ==
  ASSUME EntryInv, Tick
  PROVE  EntryInv'
<1>1. /\ scan.pc = "idle" /\ scan' = [Idle EXCEPT !.pc = "managing"]
      /\ UNCHANGED <<api, now, day, equity, trader, emitted, pos, report, restarts>>
  BY DEF Tick
<1>2. breaker' = breaker
  BY <1>1 DEF trader
<1>3. /\ DOMAIN scan' = ScanFields
      /\ scan'.pc = "managing" /\ scan'.late = FALSE /\ scan'.gated = FALSE
      /\ scan'.equity \in Nat /\ scan'.count \in Nat
  BY <1>1 DEF Idle, ScanFields
<1>4. SignalInv' /\ BreakerInv'
  BY <1>3 DEF SignalInv, BreakerInv
<1>5. CASE UNCHANGED <<base, meta, history>>
  BY <1>1, <1>2, <1>3, <1>4, <1>5, ScanMoves
<1>6. CASE /\ equity # 0 /\ base.day # day /\ Register(equity)
           /\ meta' = IF api THEN meta ELSE [day |-> day, equity |-> equity]
  <2>1. equity \in Nat
    BY DEF EntryInv, Types
  <2>2. /\ BaselineInv'
        /\ base' \in [day : Int, equity : Nat] /\ meta' \in [day : Int, equity : Nat]
        /\ history' \in [first : Nat, forgotten : BOOLEAN, returned : SUBSET Signals]
        /\ history'.returned = history.returned
    BY <1>1, <1>6, <2>1, RegisterKeepsBaselines
  <2>3. Types'
    BY <1>1, <1>2, <1>3, <2>2 DEF EntryInv, Types
  <2>4. LossInv'
    BY <1>3 DEF LossInv
  <2>5. CountInv'
    BY <1>1, <1>3, <2>2 DEF EntryInv, CountInv, CountLimited, Kept, Open
  <2> QED
    BY <1>4, <2>2, <2>3, <2>4, <2>5 DEF EntryInv
<1> QED
  BY <1>5, <1>6 DEF Tick

\* The snapshot sees the open positions, and the loss against the day's baseline.
LEMMA SnapshotStep ==
  ASSUME EntryInv, Snapshot
  PROVE  EntryInv'
<1>1. /\ scan.pc = "sized"
      /\ IF base.day # day \/ base.equity = 0 THEN Register(scan.equity)
         ELSE UNCHANGED <<base, history>>
      /\ scan' = [scan EXCEPT !.pc = "order", !.count = Cardinality(Open),
                              !.notional = TotalNotional(Open),
                              !.loss = AtLoss(base'.equity, scan.equity, KillLoss)]
      /\ UNCHANGED <<api, now, day, equity, meta, killed, trader, emitted, pos, report, restarts>>
  BY DEF Snapshot
<1>2. breaker' = breaker /\ Open' = Open /\ Open \in SUBSET Signals
  BY <1>1 DEF trader, Open
<1>3. Cardinality(Open) \in Nat
  BY <1>2, SignalsAreFinite
<1>4. /\ DOMAIN scan' = ScanFields
      /\ scan'.pc = "order" /\ scan'.count = Cardinality(Open)
      /\ scan'.loss = AtLoss(base'.equity, scan.equity, KillLoss)
      /\ scan'.equity = scan.equity /\ scan'.sig = scan.sig
      /\ scan'.late = scan.late /\ scan'.gated = scan.gated
  BY <1>1 DEF EntryInv, Types, ScanFields
<1>5. scan.equity \in Nat /\ scan.equity # 0 /\ scan.sig \in Signals
  BY <1>1 DEF EntryInv, Types, SignalInv
<1>6. /\ BaselineInv'
      /\ base' \in [day : Int, equity : Nat]
      /\ history' \in [first : Nat, forgotten : BOOLEAN, returned : SUBSET Signals]
      /\ history'.returned = history.returned
      /\ history'.first # 0 /\ ~history'.forgotten => base'.equity = history'.first
  <2>1. CASE base.day # day \/ base.equity = 0
    BY <1>1, <1>5, <2>1, RegisterKeepsBaselines
  <2>2. CASE ~(base.day # day \/ base.equity = 0)
    BY <1>1, <2>2 DEF EntryInv, Types, BaselineInv
  <2> QED
    BY <2>1, <2>2
<1>7. Types'
  BY <1>1, <1>2, <1>3, <1>4, <1>5, <1>6 DEF EntryInv, Types
<1>8. SignalInv' /\ BreakerInv'
  BY <1>1, <1>2, <1>4, <1>5 DEF EntryInv, SignalInv, BreakerInv
<1>9. LossInv'
  BY <1>4, <1>6 DEF LossInv, AtLoss
<1>10. CountInv'
  BY <1>1, <1>2, <1>3, <1>4, <1>6 DEF EntryInv, CountInv, CountLimited, Kept
<1> QED
  BY <1>6, <1>7, <1>8, <1>9, <1>10 DEF EntryInv

-----------------------------------------------------------------------------
(* The rest of the scan.                                                   *)

\* The scan walks the symbols; a signal is taken up with the breaker as it is.
LEMMA WalkStep ==
  ASSUME EntryInv,
         \/ ScanBegins \/ ScanEnds
         \/ \E s \in Symbols : SymbolYieldsNothing(s) \/ \E c \in 0..MaxTime : SymbolSignals(s, c)
  PROVE  EntryInv'
<1>1. UNCHANGED <<api, now, day, equity, base, meta, breaker, pos, history>>
  BY DEF ScanBegins, ScanEnds, SymbolYieldsNothing, SymbolSignals, trader
<1>2. CASE scan' = Idle
  BY <1>1, <1>2, BackToScanMoves
<1>3. CASE \E S : scan' = [scan EXCEPT !.todo = S] /\ scan.pc = "scanning"
  <2>1. /\ DOMAIN scan' = ScanFields
        /\ scan'.pc = "scanning" /\ scan'.late = scan.late /\ scan'.gated = scan.gated
        /\ scan'.equity \in Nat /\ scan'.count \in Nat
    BY <1>3 DEF EntryInv, Types, ScanFields
  <2>2. SignalInv' /\ BreakerInv'
    BY <1>1, <1>3, <2>1 DEF EntryInv, SignalInv, BreakerInv
  <2> QED
    BY <1>1, <2>1, <2>2, ScanMoves
<1>4. CASE scan' = [scan EXCEPT !.pc = "scanning", !.todo = Symbols] /\ scan.pc = "managing"
  <2>1. /\ DOMAIN scan' = ScanFields
        /\ scan'.pc = "scanning" /\ scan'.late = scan.late /\ scan'.gated = scan.gated
        /\ scan'.equity \in Nat /\ scan'.count \in Nat
    BY <1>4 DEF EntryInv, Types, ScanFields
  <2>2. SignalInv' /\ BreakerInv'
    BY <1>1, <1>4, <2>1 DEF EntryInv, SignalInv, BreakerInv
  <2> QED
    BY <1>1, <2>1, <2>2, ScanMoves
<1>5. ASSUME NEW s \in Symbols, NEW c \in 0..MaxTime, scan.pc = "scanning", equity # 0,
             scan' = [scan EXCEPT !.todo = @ \ {s}, !.sig = <<s, c>>, !.equity = equity,
                                  !.pc = "gate", !.late = breaker]
      PROVE  EntryInv'
  <2>1. /\ DOMAIN scan' = ScanFields
        /\ scan'.pc = "gate" /\ scan'.late = breaker /\ scan'.gated = scan.gated
        /\ scan'.equity = equity /\ scan'.equity \in Nat /\ scan'.count \in Nat
        /\ scan'.sig \in Signals
    BY <1>5 DEF EntryInv, Types, ScanFields, Signals
  <2>2. SignalInv' /\ BreakerInv'
    BY <1>1, <1>5, <2>1 DEF EntryInv, Types, SignalInv, BreakerInv
  <2> QED
    BY <1>1, <2>1, <2>2, ScanMoves
<1>6. CASE ScanBegins
  BY <1>2, <1>4, <1>6 DEF ScanBegins
<1>7. CASE ScanEnds
  BY <1>2, <1>7 DEF ScanEnds
<1>8. ASSUME NEW s \in Symbols, SymbolYieldsNothing(s)
      PROVE  EntryInv'
  BY <1>3, <1>8 DEF SymbolYieldsNothing
<1>9. ASSUME NEW s \in Symbols, NEW c \in 0..MaxTime, SymbolSignals(s, c)
      PROVE  EntryInv'
  <2>1. CASE equity = 0
    BY <1>3, <1>9, <2>1 DEF SymbolSignals
  <2>2. CASE equity # 0
    BY <1>5, <1>9, <2>2 DEF SymbolSignals
  <2> QED
    BY <2>1, <2>2
<1> QED
  BY <1>6, <1>7, <1>8, <1>9

\* An enabled gate asks the breaker.
LEMMA GateStep ==
  ASSUME EntryInv, Gate
  PROVE  EntryInv'
<1>1. /\ scan.pc = "gate" /\ scan.sig \in Signals /\ scan.equity # 0
      /\ UNCHANGED <<api, now, day, equity, base, meta, breaker, pos, history>>
  BY DEF Gate, trader, EntryInv, SignalInv
<1>2. CASE scan' = BackToScan
  BY <1>1, <1>2, BackToScanMoves
<1>3. CASE scan' = [scan EXCEPT !.pc = "sized"]
  <2>1. /\ DOMAIN scan' = ScanFields
        /\ scan'.pc = "sized" /\ scan'.late = scan.late /\ scan'.gated = scan.gated
        /\ scan'.sig = scan.sig /\ scan'.equity = scan.equity
        /\ scan'.equity \in Nat /\ scan'.count \in Nat
    BY <1>3 DEF EntryInv, Types, ScanFields
  <2>2. SignalInv' /\ BreakerInv'
    BY <1>1, <2>1 DEF EntryInv, SignalInv, BreakerInv
  <2> QED
    BY <1>1, <2>1, <2>2, ScanMoves
<1>4. CASE GateAllows(scan.sig, scan.equity) /\ scan' = [scan EXCEPT !.pc = "sized", !.gated = TRUE]
  <2>1. /\ DOMAIN scan' = ScanFields
        /\ scan'.pc = "sized" /\ scan'.late = scan.late
        /\ scan'.sig = scan.sig /\ scan'.equity = scan.equity
        /\ scan'.equity \in Nat /\ scan'.count \in Nat
    BY <1>4 DEF EntryInv, Types, ScanFields
  <2>2. scan.late # TRUE
    BY <1>4 DEF GateAllows, EntryInv, BreakerInv
  <2>3. SignalInv' /\ BreakerInv'
    BY <1>1, <2>1, <2>2 DEF EntryInv, SignalInv, BreakerInv
  <2> QED
    BY <1>1, <2>1, <2>3, ScanMoves
<1> QED
  BY <1>2, <1>3, <1>4 DEF Gate

\* An order that fills finds no more positions than the guardian counted.
LEMMA EnterStep ==
  ASSUME EntryInv, Enter
  PROVE  EntryInv'
<1>1. /\ scan.pc = "order" /\ GuardianAllows(scan) /\ scan.sig \in Signals
      /\ pos' = [pos EXCEPT ![scan.sig] = [status |-> "OPEN", at |-> scan.equity]]
      /\ scan' = BackToScan
      /\ UNCHANGED <<api, now, day, equity, base, meta, breaker, history>>
  BY DEF Enter, EntryInv, SignalInv
<1>2. pos' \in [Signals -> [status : Statuses, at : Nat]] /\ Open' \subseteq Open \cup {scan.sig}
  BY <1>1 DEF EntryInv, Types, Statuses, Open
<1>3. /\ DOMAIN scan' = ScanFields
      /\ scan'.pc = "scanning" /\ scan'.late = FALSE /\ scan'.gated = FALSE
      /\ scan'.equity \in Nat /\ scan'.count \in Nat
  BY <1>1, IdleScan DEF BackToScan, Idle, ScanFields
<1>4. Types'
  BY <1>1, <1>2, <1>3 DEF EntryInv, Types
<1>5. SignalInv' /\ BreakerInv' /\ LossInv'
  BY <1>3 DEF SignalInv, BreakerInv, LossInv
<1>6. BaselineInv'
  BY <1>1 DEF EntryInv, BaselineInv
<1>7. CountInv'
  <2>1. Open \in SUBSET Signals /\ Open \cup {scan.sig} \in SUBSET Signals
    BY <1>1 DEF Open
  <2>2. /\ Cardinality(Open) \in Nat /\ IsFiniteSet(Open)
        /\ Cardinality(Open \cup {scan.sig}) <= Cardinality(Open) + 1
    <3>1. IsFiniteSet(Open) /\ Cardinality(Open) \in Nat
      BY <2>1, SignalsAreFinite
    <3>2. \/ Cardinality(Open \cup {scan.sig}) = Cardinality(Open)
          \/ Cardinality(Open \cup {scan.sig}) = Cardinality(Open) + 1
      BY <3>1, FS_AddElement
    <3> QED
      BY <3>1, <3>2
  <2>3. Kept' \in SUBSET (Open \cup {scan.sig})
    BY <1>2 DEF Kept
  <2>4. /\ Cardinality(Kept') <= Cardinality(Open \cup {scan.sig})
        /\ Cardinality(Kept') \in Nat /\ Cardinality(Open \cup {scan.sig}) \in Nat
    BY <2>1, <2>3, SmallerCounts, SignalsAreFinite
  <2>5. Cardinality(Open) <= scan.count /\ scan.count < MaxPositions[api] /\ scan.count \in Nat
        /\ MaxPositions[api] \in Nat
    BY <1>1, EntryConstants DEF EntryInv, CountInv, GuardianAllows, Types
  <2>6. Cardinality(Kept') <= MaxPositions[api]
    BY <2>2, <2>4, <2>5
  <2> QED
    BY <1>1, <1>3, <2>6 DEF CountInv, CountLimited
<1> QED
  BY <1>4, <1>5, <1>6, <1>7 DEF EntryInv

\* The guardian, or the order's own checks, refuse.
LEMMA RefuseStep ==
  ASSUME EntryInv, Refuse
  PROVE  EntryInv'
BY BackToScanMoves DEF Refuse, trader

-----------------------------------------------------------------------------
(* Closing.                                                                *)

\* A close takes a position away; the breaker may trip, and stays tripped.
LEMMA CloseStep ==
  ASSUME EntryInv,
         \/ \E sig \in Signals : ManageCloses(sig)
         \/ \E t \in Closers : CloserStep(t)
  PROVE  EntryInv'
<1>1. UNCHANGED <<api, now, day, equity, base, meta, history, scan>>
  BY DEF ManageCloses, CloserStep, Close, Report
<1>2. breaker' \in BOOLEAN /\ (breaker = TRUE => breaker' = TRUE)
  BY DEF ManageCloses, CloserStep, Close, Report, Recorded, trader, EntryInv, Types
<1>3. \/ pos' = pos
      \/ \E sig \in Open : \E x \in {"CLOSED", "EXITING"} : pos' = [pos EXCEPT ![sig].status = x]
  BY DEF ManageCloses, CloserStep, Close, Report
<1>4. pos' \in [Signals -> [status : Statuses, at : Nat]] /\ Open' \subseteq Open
  <2>1. CASE pos' = pos
    BY <2>1 DEF EntryInv, Types, Open
  <2>2. ASSUME NEW sig \in Open, NEW x \in {"CLOSED", "EXITING"}, pos' = [pos EXCEPT ![sig].status = x]
        PROVE  pos' \in [Signals -> [status : Statuses, at : Nat]] /\ Open' \subseteq Open
    BY <2>2 DEF EntryInv, Types, Open, Statuses
  <2> QED
    BY <1>3, <2>1, <2>2
<1>5. SignalInv' /\ BreakerInv'
  BY <1>1, <1>2 DEF EntryInv, SignalInv, BreakerInv
<1> QED
  BY <1>1, <1>2, <1>4, <1>5, QuietStep DEF EntryInv, Types

-----------------------------------------------------------------------------
(* The world.                                                              *)

\* The account moves, or the settings do.
LEMMA EquityStep ==
  ASSUME EntryInv, EquityMoves \/ Reload
  PROVE  EntryInv'
<1>1. /\ UNCHANGED <<api, now, day, base, meta, breaker, pos, scan, history>>
      /\ equity' \in Nat
  BY EntryConstants DEF EquityMoves, Reload, trader, EntryInv, Types
<1>2. SignalInv' /\ BreakerInv' /\ Open' = Open
  BY <1>1 DEF EntryInv, SignalInv, BreakerInv, Open
<1> QED
  BY <1>1, <1>2, QuietStep DEF EntryInv, Types

\* A new day has no baseline yet.
LEMMA AdvanceStep ==
  ASSUME EntryInv, Advance
  PROVE  EntryInv'
<1>1. /\ now' = now + 1 /\ day' \in {day, day + 1}
      /\ history' = IF day' = day THEN history
                    ELSE [history EXCEPT !.first = 0, !.forgotten = FALSE]
      /\ UNCHANGED <<api, equity, base, meta, breaker, pos, scan>>
  BY DEF Advance
<1>2. now' \in Nat /\ day' \in Nat
  BY <1>1 DEF EntryInv, Types
<1>3. CASE day' = day
  <2>1. SignalInv' /\ BreakerInv' /\ Open' = Open
    BY <1>1 DEF EntryInv, SignalInv, BreakerInv, Open
  <2> QED
    BY <1>1, <1>2, <1>3, <2>1, QuietStep DEF EntryInv, Types
<1>4. CASE day' # day
  <2>1. /\ history' \in [first : Nat, forgotten : BOOLEAN, returned : SUBSET Signals]
        /\ history'.first = 0 /\ history'.returned = history.returned
    BY <1>1, <1>4 DEF EntryInv, Types
  <2>2. Types'
    BY <1>1, <1>2, <2>1 DEF EntryInv, Types
  <2>3. SignalInv' /\ BreakerInv' /\ LossInv'
    BY <1>1, <2>1 DEF EntryInv, SignalInv, BreakerInv, LossInv
  <2>4. BaselineInv'
    BY <1>1, <1>4, <2>1 DEF EntryInv, Types, BaselineInv
  <2>5. CountInv'
    BY <1>1, <2>1 DEF EntryInv, CountInv, CountLimited, Kept, Open
  <2> QED
    BY <2>2, <2>3, <2>4, <2>5 DEF EntryInv
<1> QED
  BY <1>3, <1>4

\* A new process restores the stored baseline, or begins the day anew and forgets.
LEMMA RestartStep ==
  ASSUME EntryInv, Restart
  PROVE  EntryInv'
<1> DEFINE start == IF Restored.equity > 0 THEN Restored
                    ELSE IF equity > 0 THEN [day |-> day, equity |-> equity]
                    ELSE NoBaseline
           returned == IF api THEN {}
                       ELSE history.returned \cup {sig \in Signals : pos[sig].status = "EXITING"}
<1>1. /\ base' = start
      /\ meta' = IF Restored.equity = 0 /\ equity > 0 THEN start ELSE meta
      /\ history' = [history EXCEPT
           !.first = IF @ = 0 THEN start.equity ELSE @,
           !.forgotten = @ \/ (history.first # 0 /\ meta.day # day),
           !.returned = returned]
      /\ pos' = [sig \in Signals |->
                   IF api THEN NoPosition
                   ELSE IF pos[sig].status = "EXITING" THEN [pos[sig] EXCEPT !.status = "OPEN"]
                   ELSE pos[sig]]
      /\ breaker' = FALSE /\ scan' = Idle /\ UNCHANGED <<api, now, day, equity>>
  BY DEF Restart, StartBaseline
<1>2. /\ history' \in [first : Nat, forgotten : BOOLEAN, returned : SUBSET Signals]
      /\ base' \in [day : Int, equity : Nat] /\ meta' \in [day : Int, equity : Nat]
      /\ history'.returned = returned
      /\ history'.first = IF history.first = 0 THEN start.equity ELSE history.first
      /\ history'.forgotten = (history.forgotten \/ (history.first # 0 /\ meta.day # day))
  <2>1. start \in [day : Int, equity : Nat]
    BY DEF EntryInv, Types, Restored, NoBaseline
  <2>2. returned \in SUBSET Signals
    BY DEF EntryInv, Types
  <2> HIDE DEF start, returned
  <2> QED
    BY <1>1, <2>1, <2>2 DEF EntryInv, Types
<1>3. BaselineInv'
  <2>1. CASE meta.day = day
    <3>1. Restored = meta /\ start = meta /\ history.first # 0
      BY <2>1 DEF Restored, EntryInv, Types, BaselineInv
    <3> HIDE DEF start, returned
    <3> QED
      BY <1>1, <1>2, <2>1, <3>1 DEF EntryInv, Types, BaselineInv
  <2>2. CASE meta.day # day
    <3>1. Restored.equity = 0
      BY <2>2 DEF Restored, NoBaseline
    <3>2. CASE equity > 0
      <4>1. start = [day |-> day, equity |-> equity] /\ meta' = start
        BY <1>1, <3>1, <3>2
      <4> HIDE DEF start, returned
      <4>2. /\ history'.forgotten = (history.forgotten \/ history.first # 0)
            /\ history'.first = (IF history.first = 0 THEN start.equity ELSE history.first)
            /\ day' = day /\ base' = start
        BY <1>1, <1>2, <2>2
      <4>3. /\ history.first \in Nat /\ day \in Nat /\ equity \in Nat
            /\ meta.day <= day /\ meta.equity # 0
        BY DEF EntryInv, Types, BaselineInv
      <4>4. /\ base'.day = day /\ base'.equity = equity
            /\ meta'.day = day /\ meta'.equity = equity
        BY <4>1, <4>2
      <4>5. history'.first = IF history.first = 0 THEN equity ELSE history.first
        BY <4>1, <4>2
      <4>6. history'.first # 0 /\ (~history'.forgotten => history.first = 0)
        <5>1. history'.first # 0
          BY <3>2, <4>3, <4>5
        <5>2. ~history'.forgotten => history.first = 0
          BY <4>2
        <5> QED
          BY <5>1, <5>2
      <4> QED
        BY <3>2, <4>2, <4>3, <4>4, <4>5, <4>6 DEF BaselineInv
    <3>3. CASE ~(equity > 0)
      <4>1. start = [day |-> -1, equity |-> 0] /\ meta' = meta
        BY <1>1, <3>1, <3>3 DEF NoBaseline
      <4> HIDE DEF start, returned
      <4>2. /\ history'.forgotten = (history.forgotten \/ history.first # 0)
            /\ history'.first = (IF history.first = 0 THEN start.equity ELSE history.first)
            /\ day' = day /\ base' = start
        BY <1>1, <1>2, <2>2
      <4>3. /\ history.first \in Nat /\ day \in Nat /\ equity \in Nat
            /\ meta.day <= day /\ meta.equity # 0
        BY DEF EntryInv, Types, BaselineInv
      <4>4. /\ base'.day = -1 /\ base'.equity = 0 /\ meta' = meta /\ -1 <= day /\ -1 # day
        BY <4>1, <4>2, <4>3
      <4>5. history'.first = history.first
        BY <4>1, <4>2
      <4>6. history'.first = 0 \/ history'.forgotten
        BY <4>2, <4>5
      <4> QED
        BY <2>2, <4>2, <4>3, <4>4, <4>6 DEF BaselineInv
    <3> QED
      BY <3>2, <3>3
  <2> QED
    BY <2>1, <2>2
<1>4. pos' \in [Signals -> [status : Statuses, at : Nat]]
  BY <1>1 DEF EntryInv, Types, NoPosition, Statuses
<1>5. /\ DOMAIN scan' = ScanFields
      /\ scan'.pc = "idle" /\ scan'.late = FALSE /\ scan'.gated = FALSE
      /\ scan'.equity \in Nat /\ scan'.count \in Nat
  BY <1>1, IdleScan
<1>6. Types'
  BY <1>1, <1>2, <1>4, <1>5 DEF EntryInv, Types
<1>7. SignalInv' /\ BreakerInv' /\ LossInv'
  BY <1>5 DEF SignalInv, BreakerInv, LossInv
<1>8. CountInv'
  <2>1. Kept' \in SUBSET Kept /\ Kept \in SUBSET Signals
    <3>1. CASE api
      BY <1>1, <3>1 DEF Kept, Open, NoPosition
    <3>2. CASE ~api
      BY <1>1, <1>2, <3>2 DEF Kept, Open, EntryInv, Types
    <3> QED
      BY <3>1, <3>2
  <2>2. /\ Cardinality(Kept') <= Cardinality(Kept)
        /\ Cardinality(Kept') \in Nat /\ Cardinality(Kept) \in Nat
    BY <2>1, SmallerCounts, SignalsAreFinite
  <2>3. MaxPositions[api] \in Nat
    BY EntryConstants DEF EntryInv, Types
  <2> QED
    BY <1>1, <1>5, <2>2, <2>3 DEF EntryInv, CountInv, CountLimited
<1> QED
  BY <1>3, <1>6, <1>7, <1>8 DEF EntryInv

-----------------------------------------------------------------------------
(* The whole.                                                              *)

\* Every step keeps the invariant.
LEMMA EntryStep ==
  ASSUME EntryInv, [Next]_vars
  PROVE  EntryInv'
<1>1. CASE UNCHANGED vars
  BY <1>1 DEF vars, trader, EntryInv, Types, SignalInv, BreakerInv, BaselineInv, LossInv, AtLoss,
     CountInv, CountLimited, Kept, Open
<1> QED
  BY <1>1, TickStep, WalkStep, GateStep, SnapshotStep, EnterStep, RefuseStep, CloseStep,
     EquityStep, AdvanceStep, RestartStep
  DEF Next, ScanStep, WorldStep

\* The initial state.
LEMMA EntryStart ==
  ASSUME Init
  PROVE  EntryInv
<1>1. /\ api \in BOOLEAN /\ now = 0 /\ day = 0 /\ equity = FirstEquity
      /\ base = [day |-> 0, equity |-> FirstEquity] /\ meta = base
      /\ breaker = FALSE /\ pos = [sig \in Signals |-> NoPosition] /\ scan = Idle
      /\ history = NoHistory
  BY DEF Init
<1>2. FirstEquity \in Nat /\ FirstEquity # 0
  BY EntryConstants
<1>3. Types
  <2>1. pos \in [Signals -> [status : Statuses, at : Nat]]
    BY <1>1 DEF NoPosition, Statuses
  <2>2. history \in [first : Nat, forgotten : BOOLEAN, returned : SUBSET Signals]
    BY <1>1, <1>2 DEF NoHistory
  <2>3. base \in [day : Int, equity : Nat] /\ meta = base
    BY <1>1, <1>2
  <2> QED
    BY <1>1, <1>2, <2>1, <2>2, <2>3, IdleScan DEF Types
<1>4. SignalInv /\ BreakerInv /\ LossInv
  BY <1>1, IdleScan DEF SignalInv, BreakerInv, LossInv
<1>5. BaselineInv
  BY <1>1, <1>2 DEF BaselineInv, NoHistory
<1>6. CountInv
  <2>1. Kept = {}
    BY <1>1 DEF Kept, Open, NoPosition
  <2>2. Cardinality(Kept) = 0
    BY <2>1, FS_EmptySet
  <2>3. MaxPositions[api] \in Nat
    BY <1>1, EntryConstants
  <2> QED
    BY <1>1, <2>2, <2>3, IdleScan DEF CountInv, CountLimited
<1> QED
  BY <1>3, <1>4, <1>5, <1>6 DEF EntryInv

\* What holds of the scan, the baselines, the breaker and the positions at all times.
THEOREM EntryInvariant == Spec => []EntryInv
<1> QED
  BY EntryStart, EntryStep, PTL DEF Spec

\* A signal that came after the loss breaker tripped passes no enabled gate
\* (auto_trade.py), whatever closes and reloads come between.
THEOREM BreakerStops == Spec => []BreakerStopsEntries
<1>1. EntryInv => BreakerStopsEntries
  BY DEF EntryInv, Types, BreakerInv, SignalInv, BreakerStopsEntries
<1> QED
  BY <1>1, EntryInvariant, PTL

\* The count of open positions, but for those a restart brought back, stays within
\* the limit of the guardian (guardian.py:128), though its snapshot is old by then.
THEOREM PositionsAreLimited == Spec => []CountLimited
<1> QED
  BY EntryInvariant, PTL DEF EntryInv, CountInv

\* No position is entered at an equity that lies the kill percentage below the first
\* baseline of the day, across midnights, restarts and in-flight scans, unless a
\* restart had to forget that baseline.
THEOREM DrawdownStops == Spec => DrawdownStopsEntries
<1> DEFINE Holds == \A sig \in Signals, e \in Equities :
             EntersAt(sig, e) /\ ~history.forgotten => ~AtLoss(history.first, e, KillLoss)
<1>1. EntryInv /\ [Next]_vars => [Holds]_vars
  <2>1. SUFFICES ASSUME EntryInv, Next, NEW sig \in Signals, NEW e \in Equities,
                        EntersAt(sig, e), ~history.forgotten
                 PROVE  ~AtLoss(history.first, e, KillLoss)
    OBVIOUS
  <2>2. pos[sig].status = "NONE" /\ pos'[sig].status = "OPEN" /\ pos'[sig].at = e /\ sig \notin Open
    BY <2>1 DEF EntersAt, NoPosition, Open
  <2>3. Enter
    <3>1. ASSUME NEW other \in Open, pos' = [pos EXCEPT ![other].status = "CLOSED"]
                                     \/ pos' = [pos EXCEPT ![other].status = "EXITING"]
          PROVE  FALSE
      <4>1. other # sig /\ other \in Signals
        BY <2>2 DEF Open
      <4>3. pos \in [Signals -> [status : Statuses, at : Nat]]
        BY <2>1 DEF EntryInv, Types
      <4>2. pos'[sig] = pos[sig]
        BY <3>1, <4>1, <4>3
      <4> QED
        BY <2>2, <4>2
    <3>2. ~Restart
      BY <2>2 DEF Restart, NoPosition
    <3>3. pos' # pos
      BY <2>2
    <3> QED
      BY <2>1, <3>1, <3>2, <3>3
      DEF Next, ScanStep, CloserStep, WorldStep, Tick, ScanBegins, ScanEnds, ManageCloses,
          SymbolYieldsNothing, SymbolSignals, Gate, Snapshot, Refuse, Close, Report,
          EquityMoves, Advance, Reload
  <2>4. /\ scan.pc = "order" /\ GuardianAllows(scan) /\ scan.sig \in Signals /\ scan.equity \in Nat
        /\ pos' = [pos EXCEPT ![scan.sig] = [status |-> "OPEN", at |-> scan.equity]]
    <3>1. /\ scan.pc = "order" /\ GuardianAllows(scan)
          /\ pos' = [pos EXCEPT ![scan.sig] = [status |-> "OPEN", at |-> scan.equity]]
      BY <2>3 DEF Enter
    <3>2. EntryInv
      BY <2>1
    <3>3. scan.sig \in Signals /\ scan.equity \in Nat
      BY <3>1, <3>2 DEF EntryInv, SignalInv, Types
    <3> QED
      BY <3>1, <3>3
  <2>5. sig = scan.sig /\ e = scan.equity
    BY <2>2, <2>4 DEF EntryInv, Types
  <2>6. scan.loss # TRUE
    BY <2>4 DEF GuardianAllows
  <2> QED
    BY <2>1, <2>4, <2>5, <2>6, NoBaselineNoLoss DEF EntryInv, LossInv
<1> QED
  BY <1>1, EntryInvariant, PTL DEF Spec, DrawdownStopsEntries

-----------------------------------------------------------------------------
(* Types.                                                                  *)

TypeInv == TypeOK /\ day <= now

\* Equities are natural numbers, and none is one of them.
LEMMA KnownEquities ==
  /\ Known \subseteq Nat /\ 0 \in Known /\ Equities \subseteq Known
  /\ FirstEquity \in Equities
  /\ MaxTime \in Nat /\ MaxRestarts \in Nat /\ MaxLosses \in Nat
BY EntryConstants DEF Known

\* The smaller of two numbers.
LEMMA SmallerOfTwo ==
  ASSUME NEW a \in Nat, NEW b \in Nat
  PROVE  Min({a, b}) \in Nat /\ Min({a, b}) <= b
BY DEF Min

\* The open positions are counted among the signals.
LEMMA CountType ==
  /\ Cardinality(Signals) \in Nat
  /\ Cardinality(Open) \in 0..Cardinality(Signals)
<1>1. Open \in SUBSET Signals /\ Signals \in SUBSET Signals
  BY DEF Open
<1>2. /\ Cardinality(Open) \in Nat /\ Cardinality(Signals) \in Nat
      /\ Cardinality(Open) <= Cardinality(Signals)
  BY <1>1, SignalsAreFinite, SmallerCounts
<1> QED
  BY <1>2

\* A thread at rest is of its type.
LEMMA IdleType == Idle \in ScanType
<1>1. 0 \in 0..Cardinality(Signals)
  BY CountType
<1> QED
  BY <1>1, KnownEquities DEF Idle, ScanType

\* A sum of notionals is a natural number.
LEMMA NotionalType ==
  ASSUME pos \in [Signals -> [status : Statuses, at : Nat]]
  PROVE  /\ Notional \in [Signals -> Nat]
         /\ \A S \in SUBSET Signals : TotalNotional(S) \in Nat
<1>1. \A sig \in Signals : sig[1] \in Symbols
  BY DEF Signals
<1>2. \A sig \in Signals : Size[sig[1]] \in Nat /\ pos[sig].at \in Nat
  BY <1>1, EntryConstants
<1>3. Notional \in [Signals -> Nat]
  BY <1>2 DEF Notional
<1>4. ASSUME NEW S \in SUBSET Signals
      PROVE  TotalNotional(S) \in Nat
  <2>1. IsFiniteSet(S) /\ \A x \in S : Notional[x] \in Nat
    BY <1>3, SignalsAreFinite
  <2> QED
    BY <2>1, SumType DEF TotalNotional
<1> QED
  BY <1>3, <1>4

\* The initial state is of its type.
LEMMA TypeStart ==
  ASSUME Init
  PROVE  TypeInv
<1>1. /\ api \in BOOLEAN /\ now = 0 /\ day = 0 /\ equity = FirstEquity
      /\ base = [day |-> 0, equity |-> FirstEquity] /\ meta = base
      /\ killed = FALSE /\ losses = 0 /\ breaker = FALSE /\ cooling = {} /\ enabled = api
      /\ emitted = {} /\ pos = [sig \in Signals |-> NoPosition]
      /\ scan = Idle /\ report = [t \in Closers |-> "none"]
      /\ history = NoHistory /\ restarts = 0
  BY DEF Init
<1>2. base \in Baselines /\ history \in HistoryType
  BY <1>1, KnownEquities DEF Baselines, HistoryType, NoHistory
<1>3. pos \in PositionsType
  BY <1>1, KnownEquities DEF NoPosition, Statuses, PositionsType
<1>4. report \in [Closers -> {"none", "loss", "profit"}]
  BY <1>1
<1>5. now \in 0..MaxTime /\ day \in 0..MaxTime /\ losses \in 0..MaxLosses /\ restarts \in 0..MaxRestarts
      /\ equity \in Equities
  BY <1>1, KnownEquities
<1>6. TypeOK
  BY <1>1, <1>2, <1>3, <1>4, <1>5, IdleType
  DEF TypeOK
<1> QED
  BY <1>1, <1>6 DEF TypeInv

\* The scan thread's steps keep the types.
LEMMA ScanTypes ==
  ASSUME EntryInv, TypeInv,
         \/ Tick \/ ScanBegins \/ ScanEnds
         \/ \E s \in Symbols : SymbolYieldsNothing(s) \/ \E c \in 0..MaxTime : SymbolSignals(s, c)
         \/ Gate \/ Snapshot \/ Enter \/ Refuse
  PROVE  TypeInv'
<1> USE KnownEquities
<1>1. /\ api \in BOOLEAN /\ now \in 0..MaxTime /\ day \in 0..MaxTime /\ equity \in Equities
      /\ base \in Baselines /\ meta \in Baselines
      /\ killed \in BOOLEAN /\ losses \in 0..MaxLosses /\ breaker \in BOOLEAN
      /\ cooling \subseteq Symbols /\ enabled \in BOOLEAN /\ emitted \subseteq Signals
      /\ pos \in PositionsType /\ scan \in ScanType
      /\ report \in [Closers -> {"none", "loss", "profit"}]
      /\ history \in HistoryType /\ restarts \in 0..MaxRestarts
  BY DEF TypeInv, TypeOK
<1>2. ASSUME NEW e \in Known, Register(e)
      PROVE  base' \in Baselines /\ history' \in HistoryType
  BY <1>1, <1>2 DEF Register, Baselines, HistoryType
<1>3. BackToScan \in ScanType
  BY <1>1, IdleType DEF BackToScan, ScanType
<1>4. CASE Tick
  <2>1. scan' \in ScanType
    BY <1>4, IdleType DEF Tick, ScanType
  <2>2. base' \in Baselines /\ meta' \in Baselines /\ history' \in HistoryType /\ killed' \in BOOLEAN
    <3>1. CASE Register(equity)
      <4>1. /\ meta' = meta \/ meta' = [day |-> day, equity |-> equity]
            /\ killed' = killed \/ killed' = Breached(equity)
        BY <1>4 DEF Tick
      <4>2. Breached(equity) \in BOOLEAN
        BY DEF Breached, AtLoss
      <4>3. [day |-> day, equity |-> equity] \in Baselines
        BY <1>1 DEF Baselines
      <4> QED
        BY <1>1, <1>2, <3>1, <4>1, <4>2, <4>3
    <3>2. CASE UNCHANGED <<base, meta, history>>
      BY <1>1, <1>4, <3>2 DEF Tick, Breached, AtLoss
    <3> QED
      BY <1>4, <3>1, <3>2 DEF Tick
  <2> QED
    BY <1>1, <1>4, <2>1, <2>2 DEF TypeOK, Tick, TypeInv, trader
<1>5. CASE ScanBegins \/ ScanEnds \/ Refuse
  <2>1. scan' \in ScanType
    BY <1>1, <1>3, <1>5, IdleType, ZenonT(30) DEF ScanBegins, ScanEnds, Refuse, ScanType
  <2> QED
    BY <1>1, <1>5, <2>1 DEF TypeOK, ScanBegins, ScanEnds, Refuse, TypeInv, trader
<1>6. ASSUME NEW s \in Symbols, SymbolYieldsNothing(s)
      PROVE  TypeInv'
  <2>1. scan' \in ScanType
    BY <1>1, <1>6 DEF SymbolYieldsNothing, ScanType
  <2> QED
    BY <1>1, <1>6, <2>1 DEF TypeOK, SymbolYieldsNothing, TypeInv, trader
<1>7. ASSUME NEW s \in Symbols, NEW c \in 0..MaxTime, SymbolSignals(s, c)
      PROVE  TypeInv'
  <2>1. <<s, c>> \in Signals
    BY DEF Signals
  <2>2. scan' \in ScanType
    BY <1>1, <1>7, <2>1 DEF SymbolSignals, ScanType
  <2>3. emitted' \subseteq Signals
    BY <1>1, <1>7, <2>1 DEF SymbolSignals
  <2> QED
    BY <1>1, <1>7, <2>2, <2>3 DEF TypeOK, SymbolSignals, TypeInv, trader
<1>8. CASE Gate
  <2>1. scan' \in ScanType
    BY <1>1, <1>3, <1>8, ZenonT(30) DEF Gate, ScanType
  <2> QED
    BY <1>1, <1>8, <2>1 DEF TypeOK, Gate, TypeInv, trader
<1>9. CASE Snapshot
  <2>1. TotalNotional(Open) \in Nat
    BY NotionalType DEF EntryInv, Types, Open
  <2>2. AtLoss(base'.equity, scan.equity, KillLoss) \in BOOLEAN
    BY DEF AtLoss
  <2>3. scan' \in ScanType
    BY <1>1, <1>9, <2>1, <2>2, CountType DEF Snapshot, ScanType
  <2>4. base' \in Baselines /\ history' \in HistoryType
    BY <1>1, <1>2, <1>9 DEF Snapshot, ScanType
  <2> QED
    BY <1>1, <1>9, <2>3, <2>4 DEF TypeOK, Snapshot, TypeInv, trader
<1>10. CASE Enter
  <2>1. scan.sig \in Signals /\ scan.equity \in Known
    BY <1>1, <1>10 DEF Enter, EntryInv, SignalInv, ScanType
  <2>2. pos' \in PositionsType
    BY <1>1, <1>10, <2>1 DEF Enter, PositionsType, Statuses
  <2>3. cooling' \subseteq Symbols
    BY <1>1, <1>10, <2>1 DEF Enter, Signals
  <2>4. scan' \in ScanType
    BY <1>3, <1>10 DEF Enter
  <2> QED
    BY <1>1, <1>10, <2>2, <2>3, <2>4 DEF TypeOK, Enter, TypeInv
<1> QED
  BY <1>4, <1>5, <1>6, <1>7, <1>8, <1>9, <1>10

\* So do the other threads, and the world.
LEMMA WorldTypes ==
  ASSUME TypeInv,
         \/ \E sig \in Signals : ManageCloses(sig)
         \/ \E t \in Closers : CloserStep(t)
         \/ WorldStep
  PROVE  TypeInv'
<1> USE KnownEquities
<1>1. /\ api \in BOOLEAN /\ now \in 0..MaxTime /\ day \in 0..MaxTime /\ equity \in Equities
      /\ base \in Baselines /\ meta \in Baselines
      /\ killed \in BOOLEAN /\ losses \in 0..MaxLosses /\ breaker \in BOOLEAN
      /\ cooling \subseteq Symbols /\ enabled \in BOOLEAN /\ emitted \subseteq Signals
      /\ pos \in PositionsType /\ scan \in ScanType
      /\ report \in [Closers -> {"none", "loss", "profit"}]
      /\ history \in HistoryType /\ restarts \in 0..MaxRestarts
  BY DEF TypeInv, TypeOK
<1>2. ASSUME NEW result, Recorded(result)
      PROVE  losses' \in 0..MaxLosses /\ breaker' \in BOOLEAN
  <2>1. Min({losses + 1, MaxLosses}) \in Nat /\ Min({losses + 1, MaxLosses}) <= MaxLosses
    BY <1>1, SmallerOfTwo
  <2>2. CASE result = "loss"
    BY <1>1, <1>2, <2>1, <2>2 DEF Recorded
  <2>3. CASE result # "loss"
    BY <1>1, <1>2, <2>3 DEF Recorded
  <2> QED
    BY <2>2, <2>3
<1>3. ASSUME NEW sig \in Signals, NEW status \in Statuses, pos' = [pos EXCEPT ![sig].status = status]
      PROVE  pos' \in PositionsType
  BY <1>1, <1>3 DEF PositionsType
<1>4. "CLOSED" \in Statuses /\ "EXITING" \in Statuses
  BY DEF Statuses
<1>5. ASSUME NEW sig \in Signals, ManageCloses(sig)
      PROVE  TypeInv'
  <2>1. pos' \in PositionsType
    BY <1>3, <1>4, <1>5 DEF ManageCloses
  <2>2. losses' \in 0..MaxLosses /\ breaker' \in BOOLEAN
    BY <1>1, <1>2, <1>5 DEF ManageCloses
  <2> QED
    BY <1>1, <1>5, <2>1, <2>2 DEF TypeOK, ManageCloses, TypeInv
<1>6. ASSUME NEW t \in Closers, NEW sig \in Signals, Close(t, sig)
      PROVE  TypeInv'
  <2>1. pos' \in PositionsType
    BY <1>3, <1>4, <1>6 DEF Close
  <2>2. report' \in [Closers -> {"none", "loss", "profit"}]
    BY <1>1, <1>6 DEF Close
  <2> QED
    BY <1>1, <1>6, <2>1, <2>2 DEF TypeOK, Close, TypeInv, trader
<1>7. ASSUME NEW t \in Closers, Report(t)
      PROVE  TypeInv'
  <2>1. report' \in [Closers -> {"none", "loss", "profit"}]
    BY <1>1, <1>7 DEF Report
  <2>2. losses' \in 0..MaxLosses /\ breaker' \in BOOLEAN
    BY <1>2, <1>7 DEF Report
  <2> QED
    BY <1>1, <1>7, <2>1, <2>2 DEF TypeOK, Report, TypeInv
<1>8. CASE EquityMoves \/ Reload
  <2>1. equity' \in Equities /\ enabled' \in BOOLEAN
    BY <1>1, <1>8 DEF EquityMoves, Reload, trader
  <2> QED
    BY <1>1, <1>8, <2>1 DEF TypeOK, EquityMoves, Reload, TypeInv, trader
<1>9. CASE Advance
  <2>1. now' \in 0..MaxTime /\ day' \in 0..MaxTime /\ day' <= now' /\ cooling' \subseteq Symbols
    BY <1>1, <1>9 DEF Advance, TypeInv
  <2>2. history' \in HistoryType
    BY <1>1, <1>9 DEF Advance, HistoryType
  <2> QED
    BY <1>1, <1>9, <2>1, <2>2 DEF TypeOK, Advance, TypeInv
<1>10. CASE Restart
  <2>1. Restored \in Baselines
    BY <1>1 DEF Restored, NoBaseline, Baselines
  <2>2. base' \in Baselines /\ meta' \in Baselines
    BY <1>1, <1>10, <2>1 DEF Restart, StartBaseline, NoBaseline, Baselines
  <2>3. history' \in HistoryType
    <3>1. Restored.equity \in Known /\ NoBaseline.equity \in Known /\ equity \in Known
      BY <1>1, <2>1 DEF Baselines, NoBaseline
    <3>2. {sig \in Signals : pos[sig].status = "EXITING"} \in SUBSET Signals
      OBVIOUS
    <3> QED
      BY <1>1, <1>10, <3>1, <3>2 DEF Restart, StartBaseline, HistoryType
  <2>4. pos' \in PositionsType
    BY <1>1, <1>10 DEF Restart, PositionsType, NoPosition, Statuses
  <2>5. /\ scan' \in ScanType /\ report' \in [Closers -> {"none", "loss", "profit"}]
        /\ restarts' \in 0..MaxRestarts
    BY <1>1, <1>10, IdleType DEF Restart
  <2>6. /\ killed' \in BOOLEAN /\ losses' \in 0..MaxLosses /\ breaker' \in BOOLEAN
        /\ cooling' \subseteq Symbols /\ emitted' \subseteq Signals
    <3>1. killed' = FALSE /\ losses' = 0 /\ breaker' = FALSE /\ cooling' = {} /\ emitted' = {}
      BY <1>10 DEF Restart
    <3>2. 0 \in 0..MaxLosses
      OBVIOUS
    <3> QED
      BY <3>1, <3>2
  <2>7. /\ api' \in BOOLEAN /\ now' \in 0..MaxTime /\ day' \in 0..MaxTime /\ equity' \in Equities
        /\ enabled' \in BOOLEAN /\ day' <= now'
    <3>1. UNCHANGED <<api, now, day, equity, enabled>>
      BY <1>10 DEF Restart
    <3>2. day <= now
      BY DEF TypeInv
    <3> QED
      BY <1>1, <3>1, <3>2
  <2> QED
    BY <2>2, <2>3, <2>4, <2>5, <2>6, <2>7 DEF TypeOK, TypeInv
<1> QED
  BY <1>5, <1>6, <1>7, <1>8, <1>9, <1>10 DEF CloserStep, WorldStep

\* Every value has its type, and the day is not ahead of the candles.
LEMMA TypeInvariant == Spec => []TypeInv
<1>1. EntryInv /\ TypeInv /\ [Next]_vars => TypeInv'
  <2>1. SUFFICES ASSUME EntryInv, TypeInv, [Next]_vars
                 PROVE  TypeInv'
    OBVIOUS
  <2>2. CASE UNCHANGED vars
    BY <2>1, <2>2 DEF vars, trader, TypeInv, TypeOK
  <2> QED
    BY <2>1, <2>2, ScanTypes, WorldTypes DEF Next, ScanStep
<1> QED
  BY <1>1, TypeStart, EntryInvariant, PTL DEF Spec

\* Every value stays in its type.
THEOREM EntryTypes == Spec => []TypeOK
<1> QED
  BY TypeInvariant, PTL DEF TypeInv

-----------------------------------------------------------------------------
(* Exposure.                                                               *)

\* The notional that the guardian saw is an upper bound until the order fills.
ExposureInv ==
  /\ TotalNotional(Kept) <= MaxExposure * Max(Equities)
  /\ scan.pc = "order" => TotalNotional(Open) <= scan.notional

\* The account's equities have a largest one.
LEMMA LargestEquity ==
  Max(Equities) \in Nat /\ \A e \in Known : e <= Max(Equities)
<1> DEFINE B == {S \in SUBSET Equities : S # {} /\ ~\E x \in S : \A y \in S : y <= x}
<1>1. B = {}
  <2>1. SUFFICES ASSUME B # {}
                 PROVE  FALSE
    OBVIOUS
  <2>2. PICK S \in B : IsFiniteSet(S) /\ \A T \in SUBSET S : T # S => T \notin B
    <3>1. B \in SUBSET SUBSET Equities
      OBVIOUS
    <3> HIDE DEF B
    <3> QED
      BY <2>1, <3>1, EntryConstants, SmallestSubset
  <2>3. PICK e \in S : TRUE
    OBVIOUS
  <2>4. S \ {e} \notin B
    BY <2>2
  <2>5. CASE S = {e}
    BY <2>5, EntryConstants
  <2>6. CASE S \ {e} # {}
    <3>1. PICK x \in S \ {e} : \A y \in S \ {e} : y <= x
      BY <2>4, <2>6
    <3>2. x \in Nat /\ e \in Nat /\ S \subseteq Nat
      BY EntryConstants
    <3>3. CASE e <= x
      BY <3>1, <3>2, <3>3
    <3>4. CASE ~(e <= x)
      BY <3>1, <3>2, <3>4
    <3> QED
      BY <3>3, <3>4
  <2> QED
    BY <2>5, <2>6
<1>2. \E x \in Equities : \A y \in Equities : x >= y
  <2>1. Equities \subseteq Nat /\ Equities # {} /\ Equities \notin B
    BY <1>1, EntryConstants
  <2> QED
    BY <2>1
<1>3. Max(Equities) \in Equities /\ \A y \in Equities : Max(Equities) >= y
  BY <1>2 DEF Max
<1> HIDE DEF B
<1>4. Max(Equities) \in Nat /\ Max(Equities) >= 0
  <2>1. Equities \subseteq Nat
    BY EntryConstants
  <2>2. Max(Equities) \in Nat
    BY <1>3, <2>1, Zenon
  <2> QED
    BY <2>2
<1>5. \A e \in Equities \cup {0} : e \in Nat /\ Max(Equities) >= e
  BY <1>3, <1>4, EntryConstants
<1> QED
  BY <1>4, <1>5 DEF Known

\* A step that opens nothing and gives no position another notional.
LEMMA ExposureShrinks ==
  ASSUME EntryInv, EntryInv', TypeInv, ExposureInv,
         Kept' \subseteq Kept, \A sig \in Kept' : pos'[sig].at = pos[sig].at,
         scan'.pc = "order" => /\ scan' = scan /\ Open' \subseteq Open
                               /\ \A sig \in Open' : pos'[sig].at = pos[sig].at
  PROVE  ExposureInv'
<1>1. /\ Kept \in SUBSET Signals /\ Open \in SUBSET Signals
      /\ Kept' \in SUBSET Signals /\ Open' \in SUBSET Signals
  BY DEF Kept, Open
<1>2. /\ \A x \in Signals : Notional[x] \in Nat /\ Notional'[x] \in Nat
      /\ \A x \in Signals : pos'[x].at = pos[x].at => Notional'[x] = Notional[x]
  <2>1. \A sig \in Signals : Size[sig[1]] \in Nat
    BY EntryConstants DEF Signals
  <2> QED
    BY <2>1 DEF Notional, EntryInv, Types
<1>3. ASSUME NEW S \in SUBSET Signals, NEW R \in SUBSET S,
             \A sig \in R : pos'[sig].at = pos[sig].at
      PROVE  SumFunctionOnSet(Notional', R) <= SumFunctionOnSet(Notional, S)
  <2>1. IsFiniteSet(S)
    BY SignalsAreFinite
  <2>2. \A x \in S : Notional'[x] \in Nat /\ Notional[x] \in Nat
    BY <1>2
  <2>3. \A x \in R : Notional'[x] <= Notional[x]
    BY <1>2, <1>3
  <2> QED
    BY <2>1, <2>2, <2>3, SumMonotone
<1>4. /\ TotalNotional(Kept)' <= TotalNotional(Kept)
      /\ scan'.pc = "order" => TotalNotional(Open)' <= TotalNotional(Open)
  BY <1>1, <1>3 DEF TotalNotional
<1>5. /\ TotalNotional(Kept) \in Nat /\ TotalNotional(Open) \in Nat
      /\ TotalNotional(Kept)' \in Nat /\ TotalNotional(Open)' \in Nat
  <2>1. ASSUME NEW S \in SUBSET Signals
        PROVE  SumFunctionOnSet(Notional, S) \in Nat /\ SumFunctionOnSet(Notional', S) \in Nat
    BY <1>2, SignalsAreFinite, SumType
  <2> QED
    BY <1>1, <2>1 DEF TotalNotional
<1>6. MaxExposure * Max(Equities) \in Nat
  BY LargestEquity, EntryConstants
<1>7. TotalNotional(Kept)' <= MaxExposure * Max(Equities)
  BY <1>4, <1>5, <1>6 DEF ExposureInv
<1>8. scan'.pc = "order" => TotalNotional(Open)' <= scan'.notional
  BY <1>4, <1>5 DEF ExposureInv, TypeInv, TypeOK, ScanType
<1> QED
  BY <1>7, <1>8 DEF ExposureInv

\* Most steps of the scan, the other threads and the world.
LEMMA ExposureQuiet ==
  ASSUME EntryInv, EntryInv', TypeInv, ExposureInv,
         \/ Tick \/ ScanBegins \/ ScanEnds \/ Gate \/ Refuse
         \/ \E s \in Symbols : SymbolYieldsNothing(s) \/ \E c \in 0..MaxTime : SymbolSignals(s, c)
         \/ \E sig \in Signals : ManageCloses(sig)
         \/ \E t \in Closers : CloserStep(t)
         \/ EquityMoves \/ Advance \/ Reload
  PROVE  ExposureInv'
<1>1. DOMAIN scan = ScanFields /\ history \in HistoryType
  BY DEF TypeInv, TypeOK, EntryInv, Types
<1>2. scan'.pc = "order" => scan' = scan
  <2>1. CASE UNCHANGED scan
    BY <2>1
  <2>2. ASSUME \E pc \in {"idle", "managing", "scanning", "gate", "sized"} : scan'.pc = pc
        PROVE  scan'.pc = "order" => scan' = scan
    BY <2>2
  <2>3. CASE Tick \/ ScanBegins \/ ScanEnds \/ Refuse
    <3>1. scan'.pc \in {"idle", "managing", "scanning"}
      <4>1. CASE Tick
        BY <4>1 DEF Tick, Idle
      <4>2. CASE ScanBegins
        BY <1>1, <4>2 DEF ScanBegins, Idle, ScanFields
      <4>3. Idle.pc = "idle" /\ BackToScan.pc = "scanning"
        BY DEF Idle, BackToScan
      <4> QED
        BY <2>3, <4>1, <4>2, <4>3 DEF ScanEnds, Refuse
    <3> QED
      BY <2>2, <3>1
  <2>4. CASE Gate
    <3>1. scan'.pc \in {"scanning", "sized"}
      BY <1>1, <2>4 DEF Gate, BackToScan, Idle, ScanFields
    <3> QED
      BY <2>2, <3>1
  <2>5. ASSUME NEW s \in Symbols,
               SymbolYieldsNothing(s) \/ \E c \in 0..MaxTime : SymbolSignals(s, c)
        PROVE  scan'.pc = "order" => scan' = scan
    <3>1. scan'.pc \in {"scanning", "gate"}
      BY <1>1, <2>5 DEF SymbolYieldsNothing, SymbolSignals, ScanFields
    <3> QED
      BY <2>2, <3>1
  <2> QED
    BY <2>1, <2>3, <2>4, <2>5 DEF ManageCloses, CloserStep, Close, Report, EquityMoves, Advance, Reload
<1>3. history'.returned = history.returned
  <2>1. ASSUME NEW e, Register(e)
        PROVE  history'.returned = history.returned
    BY <1>1, <2>1 DEF Register, HistoryType
  <2>2. CASE UNCHANGED history
    BY <2>2
  <2>3. CASE Advance
    BY <1>1, <2>3 DEF Advance, HistoryType
  <2> QED
    BY <2>1, <2>2, <2>3 DEF Tick, ScanBegins, ScanEnds, Gate, Refuse, SymbolYieldsNothing,
       SymbolSignals, ManageCloses, CloserStep, Close, Report, EquityMoves, Reload
<1>4. \/ pos' = pos
      \/ \E sig \in Signals : \E status \in {"CLOSED", "EXITING"} :
           pos' = [pos EXCEPT ![sig].status = status]
  <2>1. CASE (\E sig \in Signals : ManageCloses(sig)) \/ \E t \in Closers : CloserStep(t)
    <3>1. \A sig \in Open : sig \in Signals
      BY DEF Open
    <3> QED
      BY <2>1, <3>1 DEF ManageCloses, CloserStep, Close, Report
  <2>2. CASE pos' = pos
    BY <2>2
  <2> QED
    BY <2>1, <2>2 DEF Tick, ScanBegins, ScanEnds, Gate, Refuse, SymbolYieldsNothing,
       SymbolSignals, EquityMoves, Advance, Reload
<1>5. Open' \subseteq Open /\ \A sig \in Signals : pos'[sig].at = pos[sig].at
  <2>1. CASE pos' = pos
    BY <2>1 DEF Open
  <2>2. ASSUME NEW sig \in Signals, NEW status \in {"CLOSED", "EXITING"},
               pos' = [pos EXCEPT ![sig].status = status]
        PROVE  Open' \subseteq Open /\ \A other \in Signals : pos'[other].at = pos[other].at
    BY <2>2 DEF Open, EntryInv, Types
  <2> QED
    BY <1>4, <2>1, <2>2
<1>6. Kept' \subseteq Kept /\ Kept' \subseteq Signals /\ Open' \subseteq Signals
  BY <1>3, <1>5 DEF Kept, Open
<1> QED
  BY <1>2, <1>5, <1>6, ExposureShrinks

\* A restart reopens what the exposure then leaves out.
LEMMA ExposureRestart ==
  ASSUME EntryInv, EntryInv', TypeInv, ExposureInv, Restart
  PROVE  ExposureInv'
<1>1. scan'.pc = "idle"
  BY DEF Restart, Idle
<1>2. /\ history'.returned = IF api THEN {}
                             ELSE history.returned \cup {sig \in Signals : pos[sig].status = "EXITING"}
      /\ pos' = [sig \in Signals |->
                   IF api THEN NoPosition
                   ELSE IF pos[sig].status = "EXITING" THEN [pos[sig] EXCEPT !.status = "OPEN"]
                   ELSE pos[sig]]
  <2>1. history \in HistoryType
    BY DEF TypeInv, TypeOK
  <2> QED
    BY <2>1 DEF Restart, StartBaseline, HistoryType
<1>3. Kept' \subseteq Kept /\ \A sig \in Kept' : pos'[sig].at = pos[sig].at
  <2>1. CASE api
    BY <1>2, <2>1 DEF Kept, Open, NoPosition
  <2>2. CASE ~api
    BY <1>2, <2>2 DEF Kept, Open, EntryInv, Types
  <2> QED
    BY <2>1, <2>2
<1> QED
  BY <1>1, <1>3, ExposureShrinks

\* The snapshot takes the notional of what is open.
LEMMA ExposureSnapshot ==
  ASSUME EntryInv, TypeInv, ExposureInv, Snapshot
  PROVE  ExposureInv'
<1>1. pos' = pos
  BY DEF Snapshot
<1>2. history'.returned = history.returned
  BY DEF Snapshot, Register, TypeInv, TypeOK, HistoryType
<1>3. Open' = Open /\ Kept' = Kept /\ Notional' = Notional
  BY <1>1, <1>2 DEF Open, Kept, Notional
<1>4. TotalNotional(Open)' = TotalNotional(Open) /\ TotalNotional(Kept)' = TotalNotional(Kept)
  BY <1>3 DEF TotalNotional
<1>5. scan'.notional = TotalNotional(Open)
  BY DEF Snapshot, TypeInv, TypeOK, ScanType
<1>6. TotalNotional(Open) \in Nat
  BY NotionalType DEF EntryInv, Types, Open
<1> QED
  BY <1>4, <1>5, <1>6 DEF ExposureInv

\* The order that fills adds what the guardian had room for.
LEMMA ExposureEnter ==
  ASSUME EntryInv, EntryInv', TypeInv, ExposureInv, Enter
  PROVE  ExposureInv'
<1> DEFINE sig == scan.sig
           more == Size[sig[1]] * scan.equity
<1>1. /\ scan.pc = "order" /\ sig \in Signals /\ scan.equity \in Nat /\ scan.equity \in Known
      /\ pos[sig] = NoPosition /\ GuardianAllows(scan)
      /\ pos' = [pos EXCEPT ![sig] = [status |-> "OPEN", at |-> scan.equity]]
      /\ scan' = BackToScan /\ history' = history
  BY DEF Enter, EntryInv, SignalInv, Types, TypeInv, TypeOK, ScanType
<1>2. scan'.pc = "scanning"
  BY <1>1 DEF BackToScan, Idle
<1>3. /\ \A x \in Signals : Notional[x] \in Nat /\ Notional'[x] \in Nat
      /\ \A x \in Signals \ {sig} : Notional'[x] = Notional[x]
      /\ Notional'[sig] = more
      /\ more \in Nat
  <2>1. \A x \in Signals : Size[x[1]] \in Nat
    BY EntryConstants DEF Signals
  <2>2. pos \in [Signals -> [status : Statuses, at : Nat]] /\ pos' \in [Signals -> [status : Statuses, at : Nat]]
    BY DEF EntryInv, Types
  <2>3. \A x \in Signals : Notional[x] \in Nat /\ Notional'[x] \in Nat
    BY <2>1, <2>2 DEF Notional
  <2>4. \A x \in Signals \ {sig} : Notional'[x] = Notional[x]
    BY <1>1, <2>2 DEF Notional
  <2>5. Notional'[sig] = more
    BY <1>1, <2>2 DEF Notional
  <2> QED
    BY <1>1, <2>3, <2>4, <2>5
<1>4. Open \in SUBSET Signals /\ sig \notin Open /\ Kept' \subseteq Open \cup {sig}
  <2>1. sig \notin Open /\ Open' \subseteq Open \cup {sig}
    BY <1>1 DEF Open, NoPosition
  <2> QED
    BY <2>1 DEF Open, Kept
<1> HIDE DEF sig, more
<1>5. SumFunctionOnSet(Notional', Open \cup {sig}) = more + TotalNotional(Open)
      /\ TotalNotional(Open) \in Nat
  <2>1. IsFiniteSet(Open) /\ \A x \in Open \cup {sig} : Notional'[x] \in Nat
    BY <1>1, <1>3, <1>4, SignalsAreFinite
  <2>2. SumFunctionOnSet(Notional', Open \cup {sig}) = Notional'[sig] + SumFunctionOnSet(Notional', Open)
    BY <1>4, <2>1, SumAdd
  <2>3. \A x \in Open : Notional[x] \in Nat /\ Notional'[x] = Notional[x]
    BY <1>3, <1>4
  <2>4. SumFunctionOnSet(Notional, Open) = SumFunctionOnSet(Notional', Open)
        /\ SumFunctionOnSet(Notional, Open) \in Nat
    BY <2>1, <2>3, SumSame, SumType
  <2> QED
    BY <1>3, <2>2, <2>4 DEF TotalNotional
<1>6. SumFunctionOnSet(Notional', Kept') <= SumFunctionOnSet(Notional', Open \cup {sig})
      /\ SumFunctionOnSet(Notional', Kept') \in Nat
  <2>1. IsFiniteSet(Open \cup {sig}) /\ Open \cup {sig} \in SUBSET Signals /\ IsFiniteSet(Kept')
    BY <1>1, <1>4, SignalsAreFinite, FS_Subset
  <2>2. Kept' \in SUBSET (Open \cup {sig}) /\ \A x \in Open \cup {sig} : Notional'[x] \in Nat
    BY <1>3, <1>4, <2>1
  <2>3. \A x \in Kept' : Notional'[x] <= Notional'[x]
    BY <2>2
  <2> QED
    BY <2>1, <2>2, <2>3, SumMonotone, SumType
<1>7. scan.notional + more <= MaxExposure * scan.equity /\ scan.notional \in Nat
  BY <1>1 DEF GuardianAllows, Ordered, sig, more, TypeInv, TypeOK, ScanType
<1>8. MaxExposure * scan.equity <= MaxExposure * Max(Equities)
  <2>1. scan.equity <= Max(Equities) /\ Max(Equities) \in Nat /\ MaxExposure \in Nat
    BY <1>1, LargestEquity, EntryConstants
  <2>2. \A k, a, b \in Nat : a <= b => k * a <= k * b
    OBVIOUS
  <2> QED
    BY <1>1, <2>1, <2>2
<1>9. MaxExposure * scan.equity \in Nat /\ MaxExposure * Max(Equities) \in Nat
  BY <1>1, LargestEquity, EntryConstants
<1>10. TotalNotional(Open) <= scan.notional
  BY <1>1 DEF ExposureInv
<1>11. SumFunctionOnSet(Notional', Kept') <= MaxExposure * Max(Equities)
  BY <1>3, <1>5, <1>6, <1>7, <1>8, <1>9, <1>10
<1> QED
  BY <1>2, <1>11 DEF ExposureInv, TotalNotional

\* The open positions, but for those a restart brought back, are within the count
\* and the exposure the guardian allows (guardian.py:128), though the snapshot it
\* judged is old when the order fills and positions close meanwhile.
THEOREM ExposureIsLimited == Spec => []ExposureLimited
<1>1. Init => ExposureInv
  <2>1. SUFFICES ASSUME Init
                 PROVE  ExposureInv
    OBVIOUS
  <2>2. Kept = {} /\ scan.pc = "idle"
    BY <2>1 DEF Init, Kept, Open, NoPosition, Idle
  <2>3. TotalNotional(Kept) = 0
    BY <2>2, SumEmpty DEF TotalNotional
  <2>4. MaxExposure * Max(Equities) \in Nat
    BY LargestEquity, EntryConstants
  <2> QED
    BY <2>2, <2>3, <2>4 DEF ExposureInv
<1>2. EntryInv /\ EntryInv' /\ TypeInv /\ ExposureInv /\ [Next]_vars => ExposureInv'
  <2>1. SUFFICES ASSUME EntryInv, EntryInv', TypeInv, ExposureInv, [Next]_vars
                 PROVE  ExposureInv'
    OBVIOUS
  <2>2. CASE UNCHANGED vars
    BY <2>1, <2>2, ExposureShrinks DEF vars, Kept, Open
  <2> QED
    BY <2>1, <2>2, ExposureQuiet, ExposureRestart, ExposureSnapshot, ExposureEnter
    DEF Next, ScanStep, WorldStep
<1>3. EntryInv /\ ExposureInv => ExposureLimited
  BY DEF EntryInv, CountInv, ExposureInv, ExposureLimited
<1> QED
  BY <1>1, <1>2, <1>3, TypeInvariant, EntryInvariant, PTL DEF Spec
===============================================================================
