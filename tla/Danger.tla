-------------------------------- MODULE Danger --------------------------------
(***************************************************************************)
(* The rules that judge an open position: the danger protocol the scan     *)
(* thread acts on, the advice that engine.evaluate_position returns, and   *)
(* the trailing stop ladder of the one-second loop.  Prices are integers,  *)
(* risk_per_unit (one R) is a multiple of 4, and a number that is not      *)
(* finite or not positive is 0.                                            *)
(***************************************************************************)
EXTENDS Integers

\* The fields of domain Position that the rules read.
Position(side, entry, stop, target, unit) ==
  [side |-> side, entry |-> entry, stop |-> stop, target |-> target, unit |-> unit,
   status |-> "OPEN", quantity |-> 1]

Gain(p, price) == IF p.side = "LONG" THEN price - p.entry ELSE p.entry - price

\* Is a at least as good as b for the position's side?
AtLeast(p, a, b) == IF p.side = "LONG" THEN a >= b ELSE a <= b

StopHit(p, price) == AtLeast(p, p.stop, price)
TargetHit(p, price) == AtLeast(p, price, p.target)

LossAtLeast(p, price, tenths) == 10 * Gain(p, price) <= -(tenths * p.unit)

Abs(n) == IF n < 0 THEN -n ELSE n

-----------------------------------------------------------------------------
(* evaluate_position_danger: the first hazard decides.                     *)

Assessment(level, action, reason) == [level |-> level, action |-> action, reason |-> reason]

Nothing == Assessment("NONE", "NONE", "none")
Distrust == Assessment("NONE", "RECONCILE_ONLY", "none")
NoValidExit == Assessment("CRITICAL", "RECONCILE_ONLY", "FAIL_SAFE")
FailSafe(reason) == Assessment("CRITICAL", "FAIL_SAFE_CLOSE", reason)

\* The trend is the sign of ema_fast - ema_slow, "none" without enough candles.
Against(p, trend) == trend = IF p.side = "LONG" THEN "down" ELSE "up"

BadNumbers(p, price) == price = 0 \/ p.quantity = 0 \/ p.entry = 0 \/ p.stop = 0 \/ p.target = 0

CriticalLoss(p, price) == LossAtLeast(p, price, 7)

\* candle: "future", "fresh" or "stale", from the age of the last closed candle.
Protocol(p, price, candle, trend, thin) ==
  IF p.status \in {"CLOSED", "LIQUIDATED"} THEN Nothing
  ELSE IF p.status \notin {"OPEN", "WATCH", "CRITICAL", "CLOSED", "LIQUIDATED"} THEN Distrust
  ELSE IF BadNumbers(p, price) THEN NoValidExit
  ELSE IF candle = "future" THEN NoValidExit
  ELSE IF candle = "stale" THEN FailSafe("FAIL_SAFE")
  ELSE IF StopHit(p, price) THEN FailSafe("STOP_LOSS")
  ELSE IF TargetHit(p, price) THEN FailSafe("TAKE_PROFIT")
  ELSE IF p.unit = 0 THEN FailSafe("FAIL_SAFE")
  ELSE IF CriticalLoss(p, price) THEN FailSafe("DANGER_CRITICAL")
  ELSE IF Against(p, trend) \/ thin THEN Assessment("WATCH", "NONE", "none")
  ELSE Nothing

-----------------------------------------------------------------------------
(* evaluate_danger and evaluate_trade_management: advice, applied by no one. *)

\* Mutant of AdvisoryLevel: a loss counts from one R only.
AdvisoryAtOneR(p, price, trend, thin) ==
  IF LossAtLeast(p, price, 10) THEN "CRITICAL"
  ELSE IF Against(p, trend) \/ thin THEN "WATCH"
  ELSE "NONE"

\* Both the loss of 0.7R and the one of 0.3R raise the same, critical trigger.
AdvisoryLevel(p, price, trend, thin) ==
  LET unit == IF p.unit = 0 THEN Abs(p.entry - p.stop) ELSE p.unit
      near == p.entry # p.stop /\ 10 * Abs(price - p.stop) < 3 * Abs(p.entry - p.stop) IN
  IF unit = 0 THEN "CRITICAL"
  ELSE IF LossAtLeast([p EXCEPT !.unit = unit], price, 3) THEN "CRITICAL"
  ELSE IF near \/ Against(p, trend) \/ thin THEN "WATCH"
  ELSE "NONE"

\* _evaluate_exits, then the danger level: the reason to exit, "none" without.
AdvisedExit(p, price, trend, thin) ==
  IF p.status \notin {"OPEN", "WATCH"} THEN "none"
  ELSE IF price = 0 THEN "FAIL_SAFE"
  ELSE IF StopHit(p, price) THEN "STOP_LOSS"
  ELSE IF TargetHit(p, price) THEN "TAKE_PROFIT"
  ELSE IF AdvisoryLevel(p, price, trend, thin) = "CRITICAL" THEN "DANGER_CRITICAL"
  ELSE "none"

\* The status change the advice asks for.
AdvisedStatus(p, price, trend, thin) ==
  LET level == AdvisoryLevel(p, price, trend, thin) IN
  IF level = "WATCH" /\ p.status = "OPEN" THEN "WATCH"
  ELSE IF level = "NONE" /\ p.status = "WATCH" /\ AdvisedExit(p, price, trend, thin) = "none" THEN "OPEN"
  ELSE p.status

-----------------------------------------------------------------------------
(* The trailing stop of the one-second loop.                               *)

\* _calculate_trailing_stop_target's tiers: +1R breakeven, +1.5R +0.75R,
\* +2R +1.25R, +3R +2R, by the peak gain; -1 below the first.
LockedGain(unit, peak) ==
  IF peak >= 3 * unit THEN 2 * unit
  ELSE IF peak >= 2 * unit THEN (5 * unit) \div 4
  ELSE IF 2 * peak >= 3 * unit THEN (3 * unit) \div 4
  ELSE IF peak >= unit THEN 0
  ELSE -1

Trails(p, peak) == p.unit > 0 /\ LockedGain(p.unit, peak) >= 0

TrailingStop(p, peak) ==
  IF p.side = "LONG" THEN p.entry + LockedGain(p.unit, peak)
  ELSE p.entry - LockedGain(p.unit, peak)

\* The ladder asks for a better stop than the position has.
Lags(p, peak) == Trails(p, peak) /\ ~AtLeast(p, p.stop, TrailingStop(p, peak))
===============================================================================
