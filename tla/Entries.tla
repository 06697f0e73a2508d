-------------------------------- MODULE Entries --------------------------------
(***************************************************************************)
(* From a closed candle to an open position: the scan tick with its        *)
(* drawdown check, the signals it emits, the auto-trade gate, the          *)
(* portfolio snapshot and the risk guardian, while the one-second loop and *)
(* requests close positions and report their profit, the account moves,    *)
(* the configuration is reloaded, midnight passes and processes restart.   *)
(* Time counts candle intervals.  A fill, its key and its journal rows are *)
(* PositionExecution's subject; here they are one step.                    *)
(***************************************************************************)
EXTENDS Integers, Functions, FiniteSetsExt

CONSTANTS Symbols,
          Setups,        \* the <<symbol, closing time>> the detector may accept, by deployment
          Closers,       \* threads other than the scan that close positions
          Equities,      \* the account's equity; 0 when the provider has none
          FirstEquity,
          Size,          \* Size[s]: notional of an order, in percent of equity
          MaxPositions,  \* max_concurrent_positions, by deployment
          MaxExposure,   \* in percent of equity
          KillLoss,      \* daily_drawdown_kill_pct
          GateLoss,      \* max_daily_drawdown_pct of the gate
          MaxLosses,     \* max_consecutive_losses
          MaxSignalAge,  \* max_signal_age_seconds
          MaxTime, MaxRestarts   \* bounds

ASSUME EntryConstants ==
  /\ IsFiniteSet(Symbols) /\ IsFiniteSet(Equities)
  /\ Setups \in [BOOLEAN -> SUBSET (Symbols \X (0..MaxTime))]
  /\ Equities \subseteq Nat /\ FirstEquity \in Equities \ {0}
  /\ Size \in [Symbols -> Nat \ {0}]
  /\ MaxPositions \in [BOOLEAN -> Nat \ {0}]
  /\ {KillLoss, GateLoss, MaxLosses} \subseteq Nat \ {0}
  /\ {MaxExposure, MaxSignalAge, MaxTime, MaxRestarts} \subseteq Nat

VARIABLES api,       \* the deployment: run_api, else run_service
          now, day, equity,
          base,      \* the tracker's daily baseline, and its day
          meta,      \* the stored one
          killed,    \* the kill switch
          losses, breaker, cooling, enabled,   \* the auto trader
          emitted,   \* the orchestrator's signal keys
          pos,       \* the position of every signal, and the equity it was sized with
          scan,      \* the scan thread
          report,    \* report[t]: result of the close t has not reported yet
          history,
          restarts

trader == <<losses, breaker, cooling, enabled>>
vars == <<api, now, day, equity, base, meta, killed, trader, emitted, pos, scan, report,
          history, restarts>>

Signals == Symbols \X (0..MaxTime)
NoSignal == <<>>

Statuses == {"NONE", "OPEN", "EXITING", "CLOSED"}
NoPosition == [status |-> "NONE", at |-> 0]

Open == {sig \in Signals : pos[sig].status = "OPEN"}
Notional == [sig \in Signals |-> Size[sig[1]] * pos[sig].at]
TotalNotional(S) == SumFunctionOnSet(Notional, S)

NoBaseline == [day |-> -1, equity |-> 0]

\* What the scan thread holds: symbols to go, the signal, whether it came after the
\* breaker tripped, the equity read for it, whether the gate judged it, and the
\* portfolio the guardian will see.
Idle == [pc |-> "idle", todo |-> {}, sig |-> NoSignal, late |-> FALSE, equity |-> 0,
         gated |-> FALSE, count |-> 0, notional |-> 0, loss |-> FALSE]

\* first: the first baseline of the day, of whichever process; forgotten: a later
\* process of the day had to take another; returned: positions a restart reopened.
NoHistory == [first |-> FirstEquity, forgotten |-> FALSE, returned |-> {}]

Init ==
  /\ api \in BOOLEAN
  /\ now = 0 /\ day = 0 /\ equity = FirstEquity
  /\ base = [day |-> 0, equity |-> FirstEquity] /\ meta = base
  /\ killed = FALSE /\ losses = 0 /\ breaker = FALSE /\ cooling = {} /\ enabled = api
  /\ emitted = {} /\ pos = [sig \in Signals |-> NoPosition]
  /\ scan = Idle /\ report = [t \in Closers |-> "none"]
  /\ history = NoHistory /\ restarts = 0

-----------------------------------------------------------------------------
(* Daily drawdown.                                                         *)

\* daily_drawdown_pct reaches a limit; no baseline, no loss.
AtLoss(start, e, percent) == e < start /\ 100 * (start - e) >= percent * start

\* The tracker takes e as the baseline of today.
Register(e) ==
  /\ base' = [day |-> day, equity |-> e]
  /\ history' = IF history.first = 0 THEN [history EXCEPT !.first = e] ELSE history

\* Mutant of Breached: exactly the limit is still allowed.
BreachedBeyond(e) == base.equity > 0 /\ 100 * (base.equity - e) > KillLoss * base.equity

Breached(e) == AtLoss(base.equity, e, KillLoss)

\* _check_daily_drawdown_tick: without equity nothing is checked; a new day's
\* baseline is stored, which raises on the scan thread of run_api and ends the
\* check; a breach activates the kill switch.
Tick ==
  /\ scan.pc = "idle" /\ ~killed
  /\ scan' = [Idle EXCEPT !.pc = "managing"]
  /\ \/ /\ equity = 0
        /\ UNCHANGED <<base, meta, killed, history>>
     \/ /\ equity # 0 /\ base.day # day
        /\ Register(equity)
        /\ meta' = IF api THEN meta ELSE [day |-> day, equity |-> equity]
        /\ UNCHANGED killed
     \/ /\ equity # 0 /\ base.day = day
        /\ killed' = Breached(equity)
        /\ UNCHANGED <<base, meta, history>>
  /\ UNCHANGED <<api, now, day, equity, trader, emitted, pos, report, restarts>>

-----------------------------------------------------------------------------
(* Closed positions and the loss breaker.                                  *)

\* Mutant of Recorded: a profit takes one loss off the count.
RecordedByOne(result) ==
  IF result = "loss" THEN
    /\ losses' = Min({losses + 1, MaxLosses})
    /\ breaker' = (breaker \/ losses + 1 >= MaxLosses)
  ELSE losses' = losses - 1 /\ UNCHANGED breaker

\* record_closed_position: a profit resets the count and leaves the breaker; the
\* count is compared with its limit only.
Recorded(result) ==
  IF result = "loss" THEN
    /\ losses' = Min({losses + 1, MaxLosses})
    /\ breaker' = (breaker \/ losses + 1 >= MaxLosses)
  ELSE losses' = 0 /\ UNCHANGED breaker

\* The scan closes a position, or leaves it EXITING when its key is known.
ManageCloses(sig) ==
  /\ scan.pc = "managing" /\ sig \in Open
  /\ \/ /\ pos' = [pos EXCEPT ![sig].status = "CLOSED"]
        /\ \E result \in {"loss", "profit"} : Recorded(result)
     \/ pos' = [pos EXCEPT ![sig].status = "EXITING"] /\ UNCHANGED <<losses, breaker>>
  /\ UNCHANGED <<api, now, day, equity, base, meta, killed, cooling, enabled, emitted, scan,
                 report, history, restarts>>

\* Another thread closes it,
Close(t, sig) ==
  /\ report[t] = "none" /\ sig \in Open
  /\ \/ /\ pos' = [pos EXCEPT ![sig].status = "CLOSED"]
        /\ report' \in {[report EXCEPT ![t] = result] : result \in {"loss", "profit"}}
     \/ pos' = [pos EXCEPT ![sig].status = "EXITING"] /\ UNCHANGED report
  /\ UNCHANGED <<api, now, day, equity, base, meta, killed, trader, emitted, scan, history,
                 restarts>>

\* and tells the auto trader afterwards.
Report(t) ==
  /\ report[t] # "none"
  /\ Recorded(report[t])
  /\ report' = [report EXCEPT ![t] = "none"]
  /\ UNCHANGED <<api, now, day, equity, base, meta, killed, cooling, enabled, emitted, pos, scan,
                 history, restarts>>

-----------------------------------------------------------------------------
(* The scan.                                                               *)

\* scan_once: nothing is scanned while the kill switch is active.
ScanBegins ==
  /\ scan.pc = "managing"
  /\ scan' = IF killed THEN Idle ELSE [scan EXCEPT !.pc = "scanning", !.todo = Symbols]
  /\ UNCHANGED <<api, now, day, equity, base, meta, killed, trader, emitted, pos, report, history,
                 restarts>>

\* A symbol without usable candles, with a candle that was signalled before, or
\* that the detector rejects.  (The universe has an order; any is allowed here.)
SymbolYieldsNothing(s) ==
  /\ scan.pc = "scanning" /\ s \in scan.todo
  /\ scan' = [scan EXCEPT !.todo = @ \ {s}]
  /\ UNCHANGED <<api, now, day, equity, base, meta, killed, trader, emitted, pos, report, history,
                 restarts>>

\* The quality gate: the last candle is closed, two intervals ago at the most.
Fresh(c) == c <= now /\ now - c <= 2

BackToScan == [Idle EXCEPT !.pc = "scanning", !.todo = scan.todo]

\* The signal's key is kept before anyone has judged it, and _on_signal reads the
\* equity; without equity no order is sized: the provider raised, or the gate or
\* the bridge refuses the number.
SymbolSignals(s, c) ==
  /\ scan.pc = "scanning" /\ s \in scan.todo
  /\ <<s, c>> \in Setups[api] /\ Fresh(c) /\ <<s, c>> \notin emitted
  /\ emitted' = emitted \cup {<<s, c>>}
  /\ scan' = IF equity = 0 THEN [scan EXCEPT !.todo = @ \ {s}]
             ELSE [scan EXCEPT !.todo = @ \ {s}, !.sig = <<s, c>>, !.equity = equity, !.pc = "gate",
                                  !.late = breaker]
  /\ UNCHANGED <<api, now, day, equity, base, meta, killed, trader, pos, report, history, restarts>>

ScanEnds ==
  /\ scan.pc = "scanning" /\ scan.todo = {}
  /\ scan' = Idle
  /\ UNCHANGED <<api, now, day, equity, base, meta, killed, trader, emitted, pos, report, history,
                 restarts>>

-----------------------------------------------------------------------------
(* The rest of _on_signal.                                                 *)

\* Mutant of GateAllows: the breaker is not asked.
GateWithoutBreaker(sig, e) ==
  /\ ~killed /\ ~AtLoss(base.equity, e, GateLoss) /\ now - sig[2] + 1 <= MaxSignalAge
  /\ sig[1] \notin cooling /\ Cardinality(Open) < MaxPositions[api]

\* evaluate_signal's gates on shared state; score and volatility surge are data,
\* and may reject any signal.
GateAllows(sig, e) ==
  /\ ~killed
  /\ ~breaker /\ losses < MaxLosses
  /\ ~AtLoss(base.equity, e, GateLoss)
  /\ now - sig[2] + 1 <= MaxSignalAge
  /\ sig[1] \notin cooling
  /\ Cardinality(Open) < MaxPositions[api]

\* Only an enabled auto trader is asked at all; a disabled one lets everything by.
Gate ==
  /\ scan.pc = "gate"
  /\ \/ ~enabled /\ scan' = [scan EXCEPT !.pc = "sized"]
     \/ /\ enabled /\ GateAllows(scan.sig, scan.equity)
        /\ scan' = [scan EXCEPT !.pc = "sized", !.gated = TRUE]
     \/ enabled /\ scan' = BackToScan
  /\ UNCHANGED <<api, now, day, equity, base, meta, killed, trader, emitted, pos, report, history,
                 restarts>>

\* build_portfolio: takes a baseline when the day has none, which it does not
\* store, and a snapshot of the open positions.
Snapshot ==
  /\ scan.pc = "sized"
  /\ IF base.day # day \/ base.equity = 0
     THEN Register(scan.equity)
     ELSE UNCHANGED <<base, history>>
  /\ scan' = [scan EXCEPT !.pc = "order", !.count = Cardinality(Open),
                          !.notional = TotalNotional(Open),
                          !.loss = AtLoss(base'.equity, scan.equity, KillLoss)]
  /\ UNCHANGED <<api, now, day, equity, meta, killed, trader, emitted, pos, report, restarts>>

\* The notional the bridge gives a signal's order: the quantity that risks exactly
\* what the guardian allows.
Ordered(s) == Size[s.sig[1]] * s.equity

\* Mutant of GuardianAllows: one position more than the limit.
GuardianOneMore(s) ==
  /\ ~killed /\ s.count <= MaxPositions[api]
  /\ s.notional + Ordered(s) <= MaxExposure * s.equity /\ ~s.loss

\* RiskGuardian.evaluate on the snapshot.  The risk of an order passes by its
\* sizing, and the leverage limit is wider than the exposure's.
GuardianAllows(s) ==
  /\ ~killed
  /\ s.count < MaxPositions[api]
  /\ s.notional + Ordered(s) <= MaxExposure * s.equity
  /\ ~s.loss

\* execute_order refuses a known key and a vetoed order; stop geometry is data,
\* and may veto any.  A fill is adopted and starts the symbol's cooldown.
Enter ==
  /\ scan.pc = "order"
  /\ pos[scan.sig] = NoPosition /\ GuardianAllows(scan)
  /\ pos' = [pos EXCEPT ![scan.sig] = [status |-> "OPEN", at |-> scan.equity]]
  /\ cooling' = cooling \cup {scan.sig[1]}
  /\ scan' = BackToScan
  /\ UNCHANGED <<api, now, day, equity, base, meta, killed, losses, breaker, enabled, emitted,
                 report, history, restarts>>

Refuse ==
  /\ scan.pc = "order"
  /\ scan' = BackToScan
  /\ UNCHANGED <<api, now, day, equity, base, meta, killed, trader, emitted, pos, report, history,
                 restarts>>

-----------------------------------------------------------------------------
(* The world.                                                              *)

EquityMoves ==
  /\ equity' \in Equities \ {equity}
  /\ UNCHANGED <<api, now, day, base, meta, killed, trader, emitted, pos, scan, report, history,
                 restarts>>

\* A candle closes, and perhaps the day ends; cooldowns may have run out.
Advance ==
  /\ now < MaxTime /\ now' = now + 1
  /\ day' \in {day, day + 1}
  /\ cooling' \in {cooling, {}}
  /\ history' = IF day' = day THEN history
                ELSE [history EXCEPT !.first = 0, !.forgotten = FALSE]
  /\ UNCHANGED <<api, equity, base, meta, killed, losses, breaker, enabled, emitted, pos, scan,
                 report, restarts>>

\* run_api reads settings.json again every few seconds.
Reload ==
  /\ api /\ enabled' = ~enabled
  /\ UNCHANGED <<api, now, day, equity, base, meta, killed, losses, breaker, cooling, emitted, pos,
                 scan, report, history, restarts>>

\* Mutant of Restored: the stored baseline is not read back.
RestoredNever == NoBaseline

\* CrashRecovery.recover's step 0.
Restored == IF meta.day = day THEN meta ELSE NoBaseline

\* The baseline of the new process: restored, else today's first equity, stored.
StartBaseline ==
  LET start == IF Restored.equity > 0 THEN Restored
               ELSE IF equity > 0 THEN [day |-> day, equity |-> equity]
               ELSE NoBaseline IN
  /\ base' = start
  /\ meta' = IF Restored.equity = 0 /\ equity > 0 THEN start ELSE meta
  /\ history' = [history EXCEPT
       !.first = IF @ = 0 THEN start.equity ELSE @,
       !.forgotten = @ \/ (history.first # 0 /\ meta.day # day),
       !.returned = IF api THEN {}
                    ELSE @ \cup {sig \in Signals : pos[sig].status = "EXITING"}]

\* Only what is stored survives: in run_service the positions, where those on
\* their way out are open again; in run_api no position was stored.
Restart ==
  /\ restarts < MaxRestarts /\ restarts' = restarts + 1
  /\ StartBaseline
  /\ pos' = [sig \in Signals |->
               IF api THEN NoPosition
               ELSE IF pos[sig].status = "EXITING" THEN [pos[sig] EXCEPT !.status = "OPEN"]
               ELSE pos[sig]]
  /\ killed' = FALSE /\ losses' = 0 /\ breaker' = FALSE /\ cooling' = {} /\ emitted' = {}
  /\ scan' = Idle /\ report' = [t \in Closers |-> "none"]
  /\ UNCHANGED <<api, now, day, equity, enabled>>

-----------------------------------------------------------------------------

ScanStep ==
  \/ Tick \/ ScanBegins \/ ScanEnds
  \/ \E sig \in Signals : ManageCloses(sig)
  \/ \E s \in Symbols : SymbolYieldsNothing(s) \/ \E c \in 0..MaxTime : SymbolSignals(s, c)
  \/ Gate \/ Snapshot \/ Enter \/ Refuse

CloserStep(t) == Report(t) \/ \E sig \in Signals : Close(t, sig)

WorldStep == EquityMoves \/ Advance \/ Reload \/ Restart

Next == ScanStep \/ (\E t \in Closers : CloserStep(t)) \/ WorldStep

\* The scheduler's thread runs a tick every interval until it is halted.
Spec == Init /\ [][Next]_vars /\ WF_vars(ScanStep)

-----------------------------------------------------------------------------

Known == Equities \cup {0}
Baselines == [day : -1..MaxTime, equity : Known]

ScanType == [pc : {"idle", "managing", "scanning", "gate", "sized", "order"},
             todo : SUBSET Symbols, sig : Signals \cup {NoSignal}, equity : Known,
             gated : BOOLEAN, late : BOOLEAN, count : 0..Cardinality(Signals), notional : Nat,
             loss : BOOLEAN]
HistoryType == [first : Known, forgotten : BOOLEAN, returned : SUBSET Signals]
PositionsType == [Signals -> [status : Statuses, at : Known]]

TypeOK ==
  /\ api \in BOOLEAN /\ now \in 0..MaxTime /\ day \in 0..MaxTime /\ equity \in Equities
  /\ base \in Baselines /\ meta \in Baselines
  /\ killed \in BOOLEAN /\ losses \in 0..MaxLosses /\ breaker \in BOOLEAN
  /\ cooling \subseteq Symbols /\ enabled \in BOOLEAN /\ emitted \subseteq Signals
  /\ pos \in PositionsType /\ scan \in ScanType
  /\ report \in [Closers -> {"none", "loss", "profit"}]
  /\ history \in HistoryType /\ restarts \in 0..MaxRestarts

\* No position is entered at an equity that lies KillLoss percent below the first
\* baseline of the day, whatever midnight, restarts and in-flight scans do; but a
\* baseline that was not stored (taken by build_portfolio, or by a tick of
\* run_api) is forgotten by a restart, which begins the day anew.
EntersAt(sig, e) == pos[sig] = NoPosition /\ pos'[sig].status = "OPEN" /\ pos'[sig].at = e
DrawdownStopsEntries ==
  [][\A sig \in Signals, e \in Equities :
       EntersAt(sig, e) /\ ~history.forgotten => ~AtLoss(history.first, e, KillLoss)]_vars

\* A signal emitted after the loss breaker tripped passes no enabled gate, whatever
\* is closed with a profit or reloaded meanwhile; only an order already under way
\* follows the trip.  reset_circuit_breaker is called by nothing: it ends with the
\* process.
BreakerStopsEntries == ~(scan.late /\ scan.gated)

\* The open positions, but for those a restart brought back, are within the
\* limits, though the snapshot the guardian judged is old when the order fills.
Kept == Open \ history.returned
CountLimited == Cardinality(Kept) <= MaxPositions[api]
ExposureLimited ==
  /\ CountLimited
  /\ TotalNotional(Kept) <= MaxExposure * Max(Equities)

\* A loss that stays beyond the limit of the day activates the kill switch.
Deep == equity # 0 /\ base.day = day /\ AtLoss(base.equity, equity, KillLoss)
DeepLossHalts == <>[]Deep => []<>killed
===============================================================================
