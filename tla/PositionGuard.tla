----------------------------- MODULE PositionGuard ----------------------------
(***************************************************************************)
(* What looks after the open positions of one symbol: the one-second loop  *)
(* (real_time_manager.py) with its trailing stop and its alert-then-       *)
(* autoclose clock, the management step of the scan thread, and the        *)
(* operator's HOLD or CLOSE_NOW from a request thread.  They share the     *)
(* tracker's positions and the symbol's alert; the loop and the requests   *)
(* take no common lock around their steps.  One pass of the loop is one    *)
(* second.  How a close is executed is PositionExecution's subject; here   *)
(* it is one step.                                                         *)
(***************************************************************************)
EXTENDS Danger, FiniteSets

CONSTANTS Positions,     \* the positions the symbol can have
          NoPosition,
          Long,          \* those that are long
          Entry,         \* Entry[p]: the entry price
          Unit,          \* risk_per_unit of every position; targets are at 2R
          MarkPrices,    \* prices the stream reports
          CandlePrices,  \* closes of the last candle
          Grace,         \* grace_period_seconds
          MaxHolds       \* bound: requests that hold or close

ASSUME GuardConstants ==
  /\ NoPosition \notin Positions /\ Long \subseteq Positions
  /\ Entry \in [Positions -> Nat \ {0}] /\ Unit \in Nat \ {0}
  /\ MarkPrices \subseteq Nat \ {0} /\ CandlePrices \subseteq Nat \ {0}
  /\ Grace \in Nat \ {0} /\ MaxHolds \in Nat

VARIABLES pos,         \* the tracker: status and stop loss of every position
          filled,      \* positions whose exit key is recorded
          price,       \* the symbol's mark price, 0 before the first one
          peak,        \* the symbol's best gain, of whichever position
          alert,       \* the symbol's alert, about NoPosition when inactive
          rt,          \* the one-second loop
          scan,        \* the scan thread's management step
          api,         \* a request to hold or close
          own,         \* history: the best gain seen, while the symbol had one position ever
          holds        \* requests so far

vars == <<pos, filled, price, peak, alert, rt, scan, api, own, holds>>

Statuses == {"ABSENT", "OPEN", "EXITING", "CLOSED"}

FirstStop(p) == IF p \in Long THEN Entry[p] - Unit ELSE Entry[p] + Unit
Target(p) == IF p \in Long THEN Entry[p] + 2 * Unit ELSE Entry[p] - 2 * Unit

\* Position.validate_prices: the stop and the target are positive.
ASSUME PricesArePositive == \A p \in Positions : FirstStop(p) > 0 /\ Target(p) > 0

\* A position as the rules read it, from the copy c of its mutable fields.
AsRead(p, c) ==
  [Position(IF p \in Long THEN "LONG" ELSE "SHORT", Entry[p], c.stop, Target(p), Unit)
     EXCEPT !.status = c.status]

Now(p) == AsRead(p, pos[p])
IsOpen(p) == pos[p].status = "OPEN"
OpenPositions == {p \in Positions : IsOpen(p)}

\* The symbol has had no position but p.
Alone(p) == \A q \in Positions \ {p} : pos[q].status = "ABSENT"

NoAlert == [of |-> NoPosition, age |-> 0]
NoStops == [p \in Positions |-> 0]
Resting == [pc |-> "idle", todo |-> {}, stops |-> NoStops, of |-> NoPosition]
IdleScan == [pc |-> "idle", of |-> NoPosition, copy |-> [status |-> "ABSENT", stop |-> 0]]
IdleApi == [pc |-> "idle", of |-> NoPosition]

Init ==
  /\ pos = [p \in Positions |-> [status |-> "ABSENT", stop |-> FirstStop(p)]]
  /\ filled = {} /\ price = 0 /\ peak = 0
  /\ alert = NoAlert /\ rt = Resting /\ scan = IdleScan /\ api = IdleApi
  /\ own = 0 /\ holds = 0

\* The paper service adopts a filled entry.
Open(p) ==
  /\ pos[p].status = "ABSENT"
  /\ pos' = [pos EXCEPT ![p].status = "OPEN"]
  /\ own' = 0
  /\ UNCHANGED <<filled, price, peak, alert, rt, scan, api, holds>>

\* record_mark_price from the stream, on the loop's own thread between passes.
PriceMoves ==
  /\ rt.pc = "idle"
  /\ price' \in MarkPrices \ {price}
  /\ UNCHANGED <<pos, filled, peak, alert, rt, scan, api, own, holds>>

\* force_close and manage_position's close: a position that is not managed is
\* left alone; EXITING then CLOSED when filled, EXITING for good when the exit
\* key is known or the safety chain refuses.
Close(p) ==
  IF ~IsOpen(p) THEN UNCHANGED <<pos, filled>>
  ELSE \/ /\ p \notin filled
          /\ pos' = [pos EXCEPT ![p].status = "CLOSED"] /\ filled' = filled \cup {p}
       \/ pos' = [pos EXCEPT ![p].status = "EXITING"] /\ UNCHANGED filled

-----------------------------------------------------------------------------
(* evaluate_second.                                                        *)

\* A snapshot of the open positions; the alert of a symbol without one is
\* cancelled, any other is a second older.
RtBegin ==
  /\ rt.pc = "idle"
  /\ rt' = [rt EXCEPT !.pc = "evaluating", !.todo = OpenPositions,
                     !.stops = [p \in Positions |-> IF IsOpen(p) THEN pos[p].stop ELSE 0]]
  /\ alert' = IF OpenPositions = {} \/ alert.of = NoPosition THEN NoAlert
              ELSE [alert EXCEPT !.age = @ + 1]
  /\ UNCHANGED <<pos, filled, price, peak, scan, api, own, holds>>

\* Without a mark price: the last candle's close, else the entry price.
PriceRead(p) == IF price # 0 THEN {price} ELSE CandlePrices \cup {Entry[p]}

Larger(a, b) == IF a >= b THEN a ELSE b

\* Mutant of PeakAfter: the side of the position is forgotten.
UnsignedPeak(best, p, seen) == Larger(best, Abs(Gain(p, seen)))

PeakAfter(best, p, seen) == Larger(best, Gain(p, seen))

\* Mutant of Ratchets: the ladder is climbed on a new peak only.
RatchetsOnNewPeak(viewed, best) == Lags(viewed, best) /\ best > peak

\* The decision is taken on the snapshot's stop.
Ratchets(viewed, best) == Lags(viewed, best)

\* Mutant of Trigger: a risk that persists starts the countdown again.
TriggerAgain(p) == alert' = [of |-> p, age |-> 0]

\* trigger_risk_alert leaves an active alert of the symbol as it is.
Trigger(p) == alert' = IF alert.of = NoPosition THEN [of |-> p, age |-> 0] ELSE alert

\* One position: peak, ratchet of an open position, risk conditions.  The stop
\* is the only input of the first risk; liquidations, funding and volatility
\* may raise an alert at any price.
RtEvaluate(p) ==
  /\ rt.pc = "evaluating" /\ p \in rt.todo
  /\ rt' = [rt EXCEPT !.todo = @ \ {p}, !.stops[p] = 0]
  /\ \E seen \in PriceRead(p) :
       LET viewed == AsRead(p, [pos[p] EXCEPT !.stop = rt.stops[p]])
           best == PeakAfter(peak, viewed, seen)
           moves == Ratchets(viewed, best) /\ IsOpen(p)
           stop == IF moves THEN TrailingStop(viewed, best) ELSE viewed.stop IN
       /\ price' = seen /\ peak' = best
       /\ own' = IF Alone(p) THEN Larger(own, Gain(viewed, seen)) ELSE 0
       /\ pos' = IF moves THEN [pos EXCEPT ![p].stop = stop] ELSE pos
       /\ \/ Trigger(p)
          \/ ~StopHit([viewed EXCEPT !.stop = stop], seen) /\ UNCHANGED alert
  /\ UNCHANGED <<filled, scan, api, holds>>

\* Mutant of Due: the grace period ends a second early.
DueEarly(a) == a.of # NoPosition /\ a.age + 1 >= Grace

\* Mutant of Due: the period ends after its last second.
DueLate(a) == a.of # NoPosition /\ a.age > Grace

Due(a) == a.of # NoPosition /\ a.age >= Grace

\* check_expired_alerts: the alert counts as executed before the close is tried.
RtExpire ==
  /\ rt.pc = "evaluating" /\ rt.todo = {}
  /\ \/ Due(alert) /\ alert' = NoAlert /\ rt' = [rt EXCEPT !.pc = "close", !.of = alert.of]
     \/ ~Due(alert) /\ rt' = Resting /\ UNCHANGED alert
  /\ UNCHANGED <<pos, filled, price, peak, scan, api, own, holds>>

\* _execute_autoclose, which survives whatever the close raises.
RtClose ==
  /\ rt.pc = "close"
  /\ Close(rt.of)
  /\ rt' = Resting
  /\ UNCHANGED <<price, peak, alert, scan, api, own, holds>>

-----------------------------------------------------------------------------
(* _manage_open_position of the scan.                                      *)

\* mark_to_market reads the tracked copy,
ScanRead(p) ==
  /\ scan.pc = "idle" /\ IsOpen(p)
  /\ scan' = [pc |-> "marking", of |-> p, copy |-> pos[p]]
  /\ UNCHANGED <<pos, filled, price, peak, alert, rt, api, own, holds>>

\* and stores it with a new profit: every other field as it was read.
ScanWrite ==
  /\ scan.pc = "marking"
  /\ pos' = [pos EXCEPT ![scan.of] = scan.copy]
  /\ scan' = [IdleScan EXCEPT !.pc = "manage", !.of = scan.of]
  /\ UNCHANGED <<filled, price, peak, alert, rt, api, own, holds>>

\* The danger protocol on the last closed candle; the scan passes no volumes.
ScanManage ==
  /\ scan.pc = "manage"
  /\ \E close \in CandlePrices, candle \in {"fresh", "stale", "future"}, trend \in {"up", "down"} :
       IF Protocol(Now(scan.of), close, candle, trend, FALSE).action = "FAIL_SAFE_CLOSE"
       THEN Close(scan.of)
       ELSE UNCHANGED <<pos, filled>>
  /\ scan' = IdleScan
  /\ UNCHANGED <<price, peak, alert, rt, api, own, holds>>

-----------------------------------------------------------------------------
(* _handle_autoclose_override.                                             *)

\* The request looks the alert up,
ApiBegin ==
  /\ api.pc = "idle" /\ alert.of # NoPosition /\ holds < MaxHolds
  /\ api' = [pc |-> "seen", of |-> alert.of] /\ holds' = holds + 1
  /\ UNCHANGED <<pos, filled, price, peak, alert, rt, scan, own>>

\* and resolves whatever alert the symbol has by now.
ApiHold ==
  /\ api.pc = "seen"
  /\ alert' = NoAlert /\ api' = IdleApi
  /\ UNCHANGED <<pos, filled, price, peak, rt, scan, own, holds>>

ApiConfirm ==
  /\ api.pc = "seen"
  /\ alert' = NoAlert /\ api' = [api EXCEPT !.pc = "close"]
  /\ UNCHANGED <<pos, filled, price, peak, rt, scan, own, holds>>

\* The position of the alert that was looked up is closed, whether or not the
\* confirmation found one.
ApiClose ==
  /\ api.pc = "close"
  /\ Close(api.of) /\ api' = IdleApi
  /\ UNCHANGED <<price, peak, alert, rt, scan, own, holds>>

-----------------------------------------------------------------------------

RtStep == RtBegin \/ (\E p \in Positions : RtEvaluate(p)) \/ RtExpire \/ RtClose

ScanStep == (\E p \in Positions : ScanRead(p)) \/ ScanWrite \/ ScanManage

ApiStep == ApiBegin \/ ApiHold \/ ApiConfirm \/ ApiClose

Next == (\E p \in Positions : Open(p)) \/ PriceMoves \/ RtStep \/ ScanStep \/ ApiStep

\* _run_ws_loop calls evaluate_second every second, connected or not.
Spec == Init /\ [][Next]_vars /\ WF_vars(RtStep)

-----------------------------------------------------------------------------

Copies == [status : Statuses, stop : Nat]

TypeOK ==
  /\ pos \in [Positions -> Copies] /\ filled \subseteq Positions
  /\ price \in MarkPrices \cup CandlePrices \cup {Entry[p] : p \in Positions} \cup {0}
  /\ peak \in Nat
  /\ alert \in [of : Positions \cup {NoPosition}, age : 0..Grace]
  /\ rt \in [pc : {"idle", "evaluating", "close"}, todo : SUBSET Positions,
             stops : [Positions -> Nat], of : Positions \cup {NoPosition}]
  /\ scan \in [pc : {"idle", "marking", "manage"}, of : Positions \cup {NoPosition}, copy : Copies]
  /\ api \in [pc : {"idle", "seen", "close"}, of : Positions \cup {NoPosition}]
  /\ own \in Nat /\ holds \in 0..MaxHolds

\* "+3.0R -> lock +2.0R ... +1.0R -> lock breakeven" (real_time_manager.py:226):
\* a stop that was moved is where the ladder puts it for a gain this position
\* itself has had.  A symbol's later positions inherit the peak of earlier ones,
\* so the promise is about the first.
StopEarned ==
  \A p \in Positions :
    Alone(p) => \/ pos[p].stop = FirstStop(p)
                \/ /\ Trails(Now(p), own)
                   /\ AtLeast(Now(p), TrailingStop(Now(p), own), pos[p].stop)

\* The protocol that closes positions and the advice shown to the operator are
\* written twice (danger.py:99 and :216): on fresh data nothing is closed that
\* the advice would not have left.
ClosedOnlyWhenAdvised ==
  \A p \in OpenPositions, close \in CandlePrices, trend \in {"up", "down"} :
    Protocol(Now(p), close, "fresh", trend, FALSE).action = "FAIL_SAFE_CLOSE"
      => AdvisedExit(Now(p), close, trend, FALSE) # "none"

\* "concurrent updates (e.g., trailing stop ratchets) are never clobbered"
\* (position_tracker.py:331) is not so: a mark stores the copy it read over a
\* ratchet.  But a lost ratchet is made good: no position stays behind the ladder
\* for ever.
Behind(p) == IsOpen(p) /\ Lags(Now(p), peak)
LostRatchetRestored == \A p \in Positions : []<>~Behind(p)

\* A mark that was overtaken by a close brings the position back.
Resurrects == \E p \in Positions : ~IsOpen(p) /\ pos[p].status # "ABSENT" /\ IsOpen(p)'

\* No position stays open for ever with the mark price beyond its stop, however
\* alerts of the symbol's other positions, marks and requests come between: once
\* the operator stops holding, the clock closes it or leaves it EXITING.  Only a
\* position brought back by a stale mark again and again can starve another, for
\* the alert of a symbol is about one position at a time.
Breached(p) == IsOpen(p) /\ price # 0 /\ StopHit(Now(p), price)
BreachIsActedOn ==
  (\A p \in Positions : []<>~Breached(p)) \/ []<><<Resurrects>>_vars

\* The loop implements the grace period.
Promise == INSTANCE GracePeriod WITH
  warned <- alert.of, age <- alert.age, sent <- rt.of

\* The clock closes a position only at the end of a whole grace period of a
\* warning about it that nobody dropped: "if grace period expires without user
\* response, position is automatically closed" (autoclose.py:7).
ImplementsGrace == Promise!Spec
===============================================================================
