------------------------- MODULE PositionGuard_proofs -------------------------
(***************************************************************************)
(* Proofs about PositionGuard, for any positions, prices and grace period: *)
(* GuardInv is inductive, the stop ladder pays out only what was gained,   *)
(* and the one-second loop implements GracePeriod.                         *)
(***************************************************************************)
EXTENDS PositionGuard, TLAPS

RtType == [pc : {"idle", "evaluating", "close"}, todo : SUBSET Positions,
           stops : [Positions -> Nat], of : Positions \cup {NoPosition}]

\* A thread that has something in hand knows which position it is.
Threads ==
  /\ rt.pc = "close" => rt.of \in Positions
  /\ rt.pc # "close" => rt.of = NoPosition
  /\ scan.pc # "idle" => scan.of \in Positions
  /\ scan.pc = "marking" => scan.copy.status = "OPEN"
  /\ api.pc # "idle" => api.of \in Positions

\* A warning has no more seconds than the grace period, and only within a pass of
\* the loop as many.
Clock ==
  /\ alert.of = NoPosition => alert.age = 0
  /\ rt.pc # "evaluating" => alert.age < Grace

\* The loop and the scan work on positions that exist.
Present ==
  /\ \A p \in rt.todo : pos[p].status # "ABSENT"
  /\ scan.pc = "marking" => pos[scan.of].status # "ABSENT"

GuardInv == TypeOK /\ Threads /\ Clock /\ Present

\* The ladder puts the stop here, or beyond it, for a gain of best.
Earned(p, stop, best) ==
  \/ stop = FirstStop(p)
  \/ /\ LockedGain(Unit, best) >= 0
     /\ IF p \in Long THEN Entry[p] + LockedGain(Unit, best) >= stop
        ELSE Entry[p] - LockedGain(Unit, best) <= stop

\* While a symbol has had one position, the symbol's peak is that position's own
\* best gain, and every copy of its stop is earned by it.
LadderInv ==
  \A p \in Positions :
    Alone(p) => /\ own = peak
                /\ pos[p].status = "ABSENT" => peak = 0
                /\ Earned(p, pos[p].stop, peak)
                /\ p \in rt.todo => Earned(p, rt.stops[p], peak)
                /\ scan.pc = "marking" => Earned(p, scan.copy.stop, peak)

-----------------------------------------------------------------------------
(* The rules.                                                              *)

\* A quarter, rounded down.
LEMMA Quarter ==
  ASSUME NEW n \in Nat
  PROVE  n \div 4 \in Nat /\ 4 * (n \div 4) <= n /\ n < 4 * (n \div 4) + 4
OBVIOUS

\* What the ladder locks: more for a larger peak, and never more than two R.
LEMMA LadderIsMonotone ==
  ASSUME NEW unit \in Nat \ {0}, NEW a \in Nat, NEW b \in Nat, a <= b
  PROVE  /\ LockedGain(unit, a) \in Int /\ -1 <= LockedGain(unit, a)
         /\ LockedGain(unit, a) <= 2 * unit
         /\ LockedGain(unit, a) <= LockedGain(unit, b)
<1> DEFINE five == (5 * unit) \div 4
           three == (3 * unit) \div 4
<1>1. five \in Nat /\ 4 * five <= 5 * unit /\ 5 * unit < 4 * five + 4
  BY Quarter
<1>2. three \in Nat /\ 4 * three <= 3 * unit
  BY Quarter
<1>3. three <= five /\ five <= 2 * unit
  <2> HIDE DEF five, three
  <2> QED
    BY <1>1, <1>2
<1>4. \A x \in Nat : LockedGain(unit, x) =
        IF x >= 3 * unit THEN 2 * unit
        ELSE IF x >= 2 * unit THEN five
        ELSE IF 2 * x >= 3 * unit THEN three
        ELSE IF x >= unit THEN 0 ELSE -1
  BY DEF LockedGain
<1> HIDE DEF five, three
<1> QED
  BY <1>1, <1>2, <1>3, <1>4

\* What is earned stays earned.
LEMMA EarnedStays ==
  ASSUME NEW p \in Positions, NEW stop \in Nat, NEW a \in Nat, NEW b \in Nat, a <= b,
         Earned(p, stop, a)
  PROVE  Earned(p, stop, b)
<1>1. /\ LockedGain(Unit, a) \in Int /\ LockedGain(Unit, b) \in Int
      /\ LockedGain(Unit, a) <= LockedGain(Unit, b)
  BY LadderIsMonotone, GuardConstants
<1>2. Entry[p] \in Nat
  BY GuardConstants
<1> QED
  BY <1>1, <1>2 DEF Earned

\* The ladder on a position as it was read.
LEMMA LadderOf ==
  ASSUME NEW p \in Positions, NEW c \in Copies, NEW best \in Nat
  PROVE  LET v == AsRead(p, c) IN
         /\ Trails(v, best) <=> LockedGain(Unit, best) >= 0
         /\ TrailingStop(v, best) = IF p \in Long THEN Entry[p] + LockedGain(Unit, best)
                                    ELSE Entry[p] - LockedGain(Unit, best)
         /\ \A a, b : AtLeast(v, a, b) <=> IF p \in Long THEN a >= b ELSE a <= b
         /\ \A seen : Gain(v, seen) = IF p \in Long THEN seen - Entry[p] ELSE Entry[p] - seen
         /\ v.stop = c.stop
         /\ Trails(v, best) => TrailingStop(v, best) \in Nat
<1> DEFINE v == AsRead(p, c)
<1>1. /\ v.side = IF p \in Long THEN "LONG" ELSE "SHORT"
      /\ v.entry = Entry[p] /\ v.stop = c.stop /\ v.unit = Unit
  BY DEF AsRead, Position
<1>2. Unit \in Nat /\ Unit > 0 /\ Entry[p] \in Nat
  BY GuardConstants
<1> HIDE DEF v
<1>3. Trails(v, best) <=> LockedGain(Unit, best) >= 0
  BY <1>1, <1>2 DEF Trails
<1>4. TrailingStop(v, best) = IF p \in Long THEN Entry[p] + LockedGain(Unit, best)
                              ELSE Entry[p] - LockedGain(Unit, best)
  BY <1>1 DEF TrailingStop
<1>5. Trails(v, best) => TrailingStop(v, best) \in Nat
  <2>1. LockedGain(Unit, best) \in Int /\ LockedGain(Unit, best) <= 2 * Unit
    BY <1>2, LadderIsMonotone
  <2>2. p \notin Long => Entry[p] - 2 * Unit > 0
    BY PricesArePositive DEF Target
  <2> QED
    BY <1>2, <1>3, <1>4, <2>1, <2>2
<1>6. \A a, b : AtLeast(v, a, b) <=> IF p \in Long THEN a >= b ELSE a <= b
  BY <1>1 DEF AtLeast
<1>7. \A seen : Gain(v, seen) = IF p \in Long THEN seen - Entry[p] ELSE Entry[p] - seen
  BY <1>1 DEF Gain
<1> QED
  BY <1>1, <1>3, <1>4, <1>5, <1>6, <1>7 DEF v

\* The larger of two gains.
LEMMA LargerGain ==
  ASSUME NEW a \in Nat, NEW b \in Int
  PROVE  Larger(a, b) \in Nat /\ a <= Larger(a, b)
BY DEF Larger

-----------------------------------------------------------------------------
(* The invariant.                                                          *)

\* The initial state.
LEMMA GuardStart ==
  ASSUME Init
  PROVE  GuardInv /\ LadderInv
<1>1. /\ pos = [p \in Positions |-> [status |-> "ABSENT", stop |-> FirstStop(p)]]
      /\ filled = {} /\ price = 0 /\ peak = 0
      /\ alert = NoAlert /\ rt = Resting /\ scan = IdleScan /\ api = IdleApi
      /\ own = 0 /\ holds = 0
  BY DEF Init
<1>2. \A p \in Positions : FirstStop(p) \in Nat
  BY GuardConstants, PricesArePositive DEF FirstStop
<1>3. Grace \in Nat /\ Grace > 0 /\ MaxHolds \in Nat
  BY GuardConstants
<1>4. pos \in [Positions -> Copies]
  BY <1>1, <1>2 DEF Copies, Statuses
<1>5. alert \in [of : Positions \cup {NoPosition}, age : 0..Grace]
  BY <1>1, <1>3 DEF NoAlert
<1>6. rt \in RtType
  BY <1>1 DEF Resting, NoStops, RtType
<1>7. scan \in [pc : {"idle", "marking", "manage"}, of : Positions \cup {NoPosition}, copy : Copies]
      /\ api \in [pc : {"idle", "seen", "close"}, of : Positions \cup {NoPosition}]
  BY <1>1 DEF IdleScan, IdleApi, Copies, Statuses
<1>8. TypeOK
  BY <1>1, <1>3, <1>4, <1>5, <1>6, <1>7 DEF TypeOK, RtType
<1>9. Threads /\ Clock /\ Present
  BY <1>1, <1>3 DEF Threads, Clock, Present, Resting, NoAlert, IdleScan, IdleApi
<1>10. LadderInv
  BY <1>1 DEF LadderInv, Earned, Resting, IdleScan
<1> QED
  BY <1>8, <1>9, <1>10 DEF GuardInv

\* What a close does to the positions: one of them is closed or on its way out.
LEMMA CloseMoves ==
  ASSUME GuardInv, NEW p \in Positions, Close(p)
  PROVE  /\ pos' \in [Positions -> Copies] /\ filled' \subseteq Positions
         /\ \A q \in Positions : /\ pos'[q].stop = pos[q].stop
                                 /\ pos'[q].status = "ABSENT" <=> pos[q].status = "ABSENT"
<1>1. pos \in [Positions -> Copies] /\ filled \subseteq Positions
  BY DEF GuardInv, TypeOK
<1>2. CASE UNCHANGED <<pos, filled>>
  BY <1>1, <1>2
<1>3. ASSUME NEW status \in {"CLOSED", "EXITING"}, IsOpen(p), pos' = [pos EXCEPT ![p].status = status],
             filled' = filled \/ filled' = filled \cup {p}
      PROVE  /\ pos' \in [Positions -> Copies] /\ filled' \subseteq Positions
             /\ \A q \in Positions : /\ pos'[q].stop = pos[q].stop
                                     /\ pos'[q].status = "ABSENT" <=> pos[q].status = "ABSENT"
  <2>1. pos' \in [Positions -> Copies] /\ filled' \subseteq Positions
    BY <1>1, <1>3 DEF Copies, Statuses
  <2>2. \A q \in Positions : pos'[q].stop = pos[q].stop
    BY <1>1, <1>3 DEF Copies
  <2>3. \A q \in Positions : pos'[q].status = IF q = p THEN status ELSE pos[q].status
    BY <1>1, <1>3 DEF Copies
  <2> QED
    BY <1>3, <2>1, <2>2, <2>3 DEF IsOpen
<1> QED
  BY <1>2, <1>3 DEF Close

\* A step that leaves every stop and the copies of them as they are.
LEMMA LadderQuiet ==
  ASSUME GuardInv, LadderInv, UNCHANGED <<peak, own>>,
         \A q \in Positions : /\ pos'[q].stop = pos[q].stop
                              /\ pos'[q].status = "ABSENT" <=> pos[q].status = "ABSENT",
         rt'.todo \subseteq rt.todo, rt'.todo # {} => rt'.stops = rt.stops,
         scan'.pc = "marking" => scan' = scan
  PROVE  LadderInv'
<1>1. \A p \in Positions : Alone(p)' => Alone(p)
  BY DEF Alone
<1> QED
  BY <1>1 DEF LadderInv

\* A step of the clock, of the stream or of a request that only closes.
LEMMA CloseSteps ==
  ASSUME GuardInv, LadderInv, RtClose \/ ScanManage \/ ApiClose
  PROVE  GuardInv' /\ LadderInv'
<1> USE DEF GuardInv
<1>1. /\ pos' \in [Positions -> Copies] /\ filled' \subseteq Positions
      /\ \A q \in Positions : /\ pos'[q].stop = pos[q].stop
                              /\ pos'[q].status = "ABSENT" <=> pos[q].status = "ABSENT"
  <2>1. CASE RtClose
    BY <2>1, CloseMoves DEF RtClose, Threads
  <2>2. CASE ApiClose
    BY <2>2, CloseMoves DEF ApiClose, Threads
  <2>3. CASE ScanManage
    <3>1. scan.of \in Positions /\ (Close(scan.of) \/ UNCHANGED <<pos, filled>>)
      BY <2>3 DEF ScanManage, Threads
    <3> QED
      BY <3>1, CloseMoves DEF TypeOK
  <2> QED
    BY <2>1, <2>2, <2>3
<1>2. UNCHANGED <<price, peak, alert, own, holds>>
  BY DEF RtClose, ScanManage, ApiClose
<1>3. /\ rt' \in RtType
      /\ rt'.pc = "close" => rt' = rt
      /\ rt'.pc # "close" => rt'.of = NoPosition
      /\ rt'.pc = "evaluating" => rt' = rt
      /\ rt' = rt \/ rt'.todo = {}
  <2>1. CASE RtClose
    <3>1. rt' = Resting
      BY <2>1 DEF RtClose
    <3> QED
      BY <3>1 DEF Resting, NoStops, RtType
  <2>2. CASE ScanManage \/ ApiClose
    BY <2>2 DEF ScanManage, ApiClose, TypeOK, RtType, Threads
  <2> QED
    BY <2>1, <2>2
<1>4. /\ scan' \in [pc : {"idle", "marking", "manage"}, of : Positions \cup {NoPosition}, copy : Copies]
      /\ scan' = scan \/ scan'.pc = "idle"
  <2>1. scan' = scan \/ scan' = IdleScan
    BY DEF RtClose, ScanManage, ApiClose
  <2>2. IdleScan.pc = "idle"
        /\ IdleScan \in [pc : {"idle", "marking", "manage"}, of : Positions \cup {NoPosition}, copy : Copies]
    BY DEF IdleScan, Copies, Statuses
  <2> QED
    BY <2>1, <2>2 DEF TypeOK
<1>5. /\ api' \in [pc : {"idle", "seen", "close"}, of : Positions \cup {NoPosition}]
      /\ api' = api \/ api'.pc = "idle"
  <2>1. api' = api \/ api' = IdleApi
    BY DEF RtClose, ScanManage, ApiClose
  <2>2. IdleApi.pc = "idle"
        /\ IdleApi \in [pc : {"idle", "seen", "close"}, of : Positions \cup {NoPosition}]
    BY DEF IdleApi
  <2> QED
    BY <2>1, <2>2 DEF TypeOK
<1>6. TypeOK'
  BY <1>1, <1>2, <1>3, <1>4, <1>5 DEF TypeOK, RtType
<1>7. Threads'
  BY <1>3, <1>4, <1>5 DEF Threads
<1>8. rt.pc # "evaluating" => rt'.pc # "evaluating"
  BY <1>3
<1>9. Clock'
  <2>1. CASE RtClose
    BY <1>2, <2>1 DEF Clock, RtClose
  <2>2. CASE rt' = rt
    BY <1>2, <2>2 DEF Clock
  <2> QED
    BY <2>1, <2>2 DEF ScanManage, ApiClose
<1>10. Present'
  <2>1. rt'.todo \subseteq rt.todo /\ rt.todo \subseteq Positions
    BY <1>3 DEF TypeOK, RtType
  <2>2. scan'.pc = "marking" => scan' = scan /\ scan.of \in Positions
    BY <1>4 DEF Threads
  <2> QED
    BY <1>1, <2>1, <2>2 DEF Present
<1>11. LadderInv'
  BY <1>1, <1>2, <1>3, <1>4, LadderQuiet
<1> QED
  BY <1>6, <1>7, <1>9, <1>10, <1>11

\* A position is adopted; if the symbol had none, nothing has been gained yet.
LEMMA OpenStep ==
  ASSUME GuardInv, LadderInv, NEW p \in Positions, Open(p)
  PROVE  GuardInv' /\ LadderInv'
<1> USE DEF GuardInv
<1>1. /\ pos[p].status = "ABSENT" /\ pos' = [pos EXCEPT ![p].status = "OPEN"] /\ own' = 0
      /\ UNCHANGED <<filled, price, peak, alert, rt, scan, api, holds>>
  BY DEF Open
<1>2. /\ pos' \in [Positions -> Copies]
      /\ \A q \in Positions : /\ pos'[q].stop = pos[q].stop
                              /\ pos'[q].status = IF q = p THEN "OPEN" ELSE pos[q].status
  BY <1>1 DEF TypeOK, Copies, Statuses
<1>3. TypeOK'
  BY <1>1, <1>2 DEF TypeOK
<1>4. Threads' /\ Clock'
  BY <1>1 DEF Threads, Clock
<1>5. Present'
  BY <1>1, <1>2 DEF Present, Threads, TypeOK
<1>6. LadderInv'
  <2>1. ASSUME NEW q \in Positions, Alone(q)'
        PROVE  q = p /\ Alone(p)
    BY <1>2, <2>1 DEF Alone
  <2> QED
    BY <1>1, <1>2, <2>1 DEF LadderInv
<1> QED
  BY <1>3, <1>4, <1>5, <1>6

\* A pass of the loop begins: a second more, for a warning that had less than the
\* grace period.
LEMMA BeginStep ==
  ASSUME GuardInv, LadderInv, RtBegin
  PROVE  GuardInv' /\ LadderInv'
<1> USE DEF GuardInv
<1>1. /\ rt.pc = "idle" /\ rt.of = NoPosition
      /\ rt' = [rt EXCEPT !.pc = "evaluating", !.todo = OpenPositions,
                         !.stops = [p \in Positions |-> IF IsOpen(p) THEN pos[p].stop ELSE 0]]
      /\ \/ alert' = NoAlert
         \/ alert.of # NoPosition /\ alert' = [alert EXCEPT !.age = @ + 1]
      /\ UNCHANGED <<pos, filled, price, peak, scan, api, own, holds>>
  BY DEF RtBegin, Threads
<1>2. Grace \in Nat /\ alert \in [of : Positions \cup {NoPosition}, age : 0..Grace] /\ alert.age < Grace
  BY <1>1, GuardConstants DEF Clock, TypeOK
<1>3. /\ alert' \in [of : Positions \cup {NoPosition}, age : 0..Grace]
      /\ alert'.of = NoPosition => alert'.age = 0
  BY <1>1, <1>2 DEF NoAlert
<1>4. [p \in Positions |-> IF IsOpen(p) THEN pos[p].stop ELSE 0] \in [Positions -> Nat]
  BY DEF TypeOK, Copies
<1>5. OpenPositions \subseteq Positions /\ \A p \in OpenPositions : pos[p].status # "ABSENT"
  BY DEF OpenPositions, IsOpen
<1>6. /\ rt' \in RtType /\ rt'.pc = "evaluating" /\ rt'.of = NoPosition /\ rt'.todo = OpenPositions
      /\ rt'.stops = [p \in Positions |-> IF IsOpen(p) THEN pos[p].stop ELSE 0]
  BY <1>1, <1>4, <1>5 DEF TypeOK, RtType
<1>7. TypeOK'
  BY <1>1, <1>3, <1>6 DEF TypeOK, RtType
<1>8. Threads' /\ Clock' /\ Present'
  BY <1>1, <1>3, <1>5, <1>6 DEF Threads, Clock, Present
<1>9. LadderInv'
  <2>1. \A p \in Positions : Alone(p)' => Alone(p)
    BY <1>1 DEF Alone
  <2>2. \A p \in OpenPositions : rt'.stops[p] = pos[p].stop
    BY <1>5, <1>6 DEF OpenPositions
  <2> QED
    BY <1>1, <1>6, <2>1, <2>2, ZenonT(30) DEF LadderInv
<1> QED
  BY <1>7, <1>8, <1>9

\* The clock strikes, or the pass ends with every warning younger than that.
LEMMA ExpireStep ==
  ASSUME GuardInv, LadderInv, RtExpire
  PROVE  GuardInv' /\ LadderInv'
<1> USE DEF GuardInv
<1>1. /\ rt.pc = "evaluating" /\ rt.todo = {}
      /\ UNCHANGED <<pos, filled, price, peak, scan, api, own, holds>>
  BY DEF RtExpire
<1>2. Grace \in Nat /\ Grace > 0 /\ alert \in [of : Positions \cup {NoPosition}, age : 0..Grace]
  BY GuardConstants DEF TypeOK
<1>3. CASE Due(alert) /\ alert' = NoAlert /\ rt' = [rt EXCEPT !.pc = "close", !.of = alert.of]
  <2>1. alert.of \in Positions
    BY <1>2, <1>3 DEF Due
  <2>2. rt' \in RtType /\ rt'.pc = "close" /\ rt'.of \in Positions /\ rt'.todo = {}
    BY <1>1, <1>3, <2>1 DEF TypeOK, RtType
  <2>3. alert' \in [of : Positions \cup {NoPosition}, age : 0..Grace] /\ alert'.age = 0
    BY <1>2, <1>3 DEF NoAlert
  <2>4. TypeOK'
    BY <1>1, <2>2, <2>3 DEF TypeOK, RtType
  <2>5. Threads' /\ Clock' /\ Present'
    BY <1>1, <1>2, <2>2, <2>3 DEF Threads, Clock, Present
  <2>6. LadderInv'
    BY <1>1, <2>2, LadderQuiet
  <2> QED
    BY <2>4, <2>5, <2>6
<1>4. CASE ~Due(alert) /\ rt' = Resting /\ UNCHANGED alert
  <2>1. rt' \in RtType /\ rt'.pc = "idle" /\ rt'.of = NoPosition /\ rt'.todo = {}
    BY <1>4 DEF Resting, NoStops, RtType
  <2>2. alert.age < Grace
    BY <1>2, <1>4 DEF Due, Clock
  <2>3. TypeOK'
    BY <1>1, <1>4, <2>1 DEF TypeOK, RtType
  <2>4. Threads' /\ Clock' /\ Present'
    BY <1>1, <1>4, <2>1, <2>2 DEF Threads, Clock, Present
  <2>5. LadderInv'
    BY <1>1, <2>1, LadderQuiet
  <2> QED
    BY <2>3, <2>4, <2>5
<1> QED
  BY <1>3, <1>4 DEF RtExpire

\* The price moves; a request looks up a warning, or drops it.
LEMMA OtherSteps ==
  ASSUME GuardInv, LadderInv, PriceMoves \/ ApiBegin \/ ApiHold \/ ApiConfirm
  PROVE  GuardInv' /\ LadderInv'
<1> USE DEF GuardInv
<1>1. UNCHANGED <<pos, filled, peak, rt, scan, own>>
  BY DEF PriceMoves, ApiBegin, ApiHold, ApiConfirm
<1>2. alert' = alert \/ alert' = NoAlert
  BY DEF PriceMoves, ApiBegin, ApiHold, ApiConfirm
<1>3. Grace \in Nat /\ Grace > 0
  BY GuardConstants
<1>4. alert' \in [of : Positions \cup {NoPosition}, age : 0..Grace]
  BY <1>2, <1>3 DEF NoAlert, TypeOK
<1>5. price' \in MarkPrices \cup CandlePrices \cup {Entry[p] : p \in Positions} \cup {0}
  BY DEF PriceMoves, ApiBegin, ApiHold, ApiConfirm, TypeOK
<1>6. /\ api' \in [pc : {"idle", "seen", "close"}, of : Positions \cup {NoPosition}]
      /\ api'.pc # "idle" => api'.of \in Positions
  BY DEF PriceMoves, ApiBegin, ApiHold, ApiConfirm, TypeOK, Threads, IdleApi
<1>7. holds' \in 0..MaxHolds
  BY GuardConstants DEF PriceMoves, ApiBegin, ApiHold, ApiConfirm, TypeOK
<1>8. TypeOK'
  BY <1>1, <1>4, <1>5, <1>6, <1>7 DEF TypeOK
<1>9. Threads' /\ Clock' /\ Present'
  BY <1>1, <1>2, <1>3, <1>6 DEF Threads, Clock, Present, NoAlert
<1>10. LadderInv'
  BY <1>1, LadderQuiet
<1> QED
  BY <1>8, <1>9, <1>10

\* One position of the pass: its peak, its stop, its warning.
LEMMA EvaluateStep ==
  ASSUME GuardInv, LadderInv, NEW p \in Positions, RtEvaluate(p)
  PROVE  GuardInv' /\ LadderInv'
<1> USE DEF GuardInv
<1>1. /\ rt.pc = "evaluating" /\ p \in rt.todo /\ rt.of = NoPosition
      /\ rt' = [rt EXCEPT !.todo = @ \ {p}, !.stops[p] = 0]
      /\ UNCHANGED <<filled, scan, api, holds>>
  BY DEF RtEvaluate, Threads
<1> DEFINE viewed == AsRead(p, [pos[p] EXCEPT !.stop = rt.stops[p]])
           best(seen) == PeakAfter(peak, viewed, seen)
           moves(seen) == Ratchets(viewed, best(seen)) /\ IsOpen(p)
           stop(seen) == IF moves(seen) THEN TrailingStop(viewed, best(seen)) ELSE viewed.stop
<1>2. PICK seen \in PriceRead(p) :
        /\ price' = seen /\ peak' = best(seen)
        /\ own' = IF Alone(p) THEN Larger(own, Gain(viewed, seen)) ELSE 0
        /\ pos' = IF moves(seen) THEN [pos EXCEPT ![p].stop = stop(seen)] ELSE pos
        /\ Trigger(p) \/ UNCHANGED alert
  BY Zenon DEF RtEvaluate
<1>3. /\ pos \in [Positions -> Copies] /\ peak \in Nat /\ own \in Nat /\ Entry[p] \in Nat
      /\ rt \in RtType /\ rt.stops[p] \in Nat
      /\ [pos[p] EXCEPT !.stop = rt.stops[p]] \in Copies
  BY GuardConstants DEF TypeOK, RtType, Copies
<1>4. /\ seen \in MarkPrices \cup CandlePrices \cup {Entry[q] : q \in Positions} \cup {0}
      /\ seen \in Nat
  <2>1. price \in MarkPrices \cup CandlePrices \cup {Entry[q] : q \in Positions} \cup {0}
    BY DEF TypeOK
  <2>2. \A x \in MarkPrices \cup CandlePrices \cup {Entry[q] : q \in Positions} \cup {0} : x \in Nat
    BY GuardConstants
  <2> QED
    BY <2>1, <2>2 DEF PriceRead
<1>5. /\ Gain(viewed, seen) \in Int
      /\ peak' \in Nat /\ peak <= peak' /\ own' \in Nat
      /\ Alone(p) /\ own = peak => own' = peak'
  <2>1. Gain(viewed, seen) \in Int
    <3> DEFINE c == [pos[p] EXCEPT !.stop = rt.stops[p]]
    <3>1. c \in Copies
      BY <1>3
    <3> HIDE DEF c
    <3>2. \A x : Gain(AsRead(p, c), x) = IF p \in Long THEN x - Entry[p] ELSE Entry[p] - x
      BY <1>3, <3>1, LadderOf
    <3> QED
      BY <1>3, <1>4, <3>2 DEF c
  <2>2. peak' = Larger(peak, Gain(viewed, seen))
    BY <1>2 DEF PeakAfter
  <2>3. own' = IF Alone(p) THEN Larger(own, Gain(viewed, seen)) ELSE 0
    BY <1>2
  <2> HIDE DEF viewed
  <2> QED
    BY <1>3, <2>1, <2>2, <2>3, LargerGain
<1>6. /\ moves(seen) => /\ IsOpen(p) /\ stop(seen) \in Nat /\ Earned(p, stop(seen), peak')
      /\ pos' = IF moves(seen) THEN [pos EXCEPT ![p].stop = stop(seen)] ELSE pos
  <2>1. SUFFICES ASSUME moves(seen)
                 PROVE  IsOpen(p) /\ stop(seen) \in Nat /\ Earned(p, stop(seen), peak')
    BY <1>2
  <2>2. Trails(viewed, peak') /\ stop(seen) = TrailingStop(viewed, peak') /\ IsOpen(p)
    BY <1>2, <2>1 DEF Ratchets, Lags
  <2>3. /\ LockedGain(Unit, peak') >= 0 /\ TrailingStop(viewed, peak') \in Nat
        /\ TrailingStop(viewed, peak') = IF p \in Long THEN Entry[p] + LockedGain(Unit, peak')
                                         ELSE Entry[p] - LockedGain(Unit, peak')
    BY <1>3, <1>5, <2>2, LadderOf
  <2>4. LockedGain(Unit, peak') \in Int
    BY <1>5, LadderIsMonotone, GuardConstants
  <2> HIDE DEF viewed, stop
  <2> QED
    BY <1>3, <2>2, <2>3, <2>4 DEF Earned
<1>7. /\ pos' \in [Positions -> Copies]
      /\ \A q \in Positions : pos'[q].status = pos[q].status
      /\ \A q \in Positions : q # p => pos'[q].stop = pos[q].stop
      /\ pos'[p].stop = pos[p].stop \/ Earned(p, pos'[p].stop, peak')
  <2> HIDE DEF moves, stop
  <2> QED
    BY <1>3, <1>6 DEF Copies
<1> HIDE DEF viewed, best, moves, stop
<1>8. /\ rt' \in RtType /\ rt'.pc = "evaluating" /\ rt'.of = NoPosition
      /\ rt'.todo = rt.todo \ {p} /\ rt.todo \subseteq Positions
  BY <1>1, <1>3 DEF RtType
<1>9. /\ alert' \in [of : Positions \cup {NoPosition}, age : 0..Grace]
      /\ alert'.of = NoPosition => alert'.age = 0
  BY <1>2, GuardConstants DEF Trigger, TypeOK, Clock
<1>10. TypeOK'
  BY <1>1, <1>2, <1>4, <1>5, <1>7, <1>8, <1>9 DEF TypeOK, RtType
<1>11. Threads' /\ Clock'
  BY <1>1, <1>8, <1>9 DEF Threads, Clock
<1>12. Present'
  BY <1>1, <1>7, <1>8 DEF Present, Threads
<1>13. LadderInv'
  <2>1. ASSUME NEW q \in Positions, Alone(q)'
        PROVE  q = p /\ Alone(p)
    BY <1>1, <1>7, <2>1 DEF Alone, Present
  <2>2. SUFFICES ASSUME Alone(p)
                 PROVE  /\ own' = peak'
                        /\ pos'[p].status # "ABSENT"
                        /\ Earned(p, pos'[p].stop, peak')
                        /\ p \notin rt'.todo
                        /\ scan'.pc = "marking" => Earned(p, scan'.copy.stop, peak')
    BY <2>1 DEF LadderInv
  <2>3. /\ own = peak /\ Earned(p, pos[p].stop, peak)
        /\ scan.pc = "marking" => Earned(p, scan.copy.stop, peak)
    BY <2>2 DEF LadderInv
  <2>4. pos[p].stop \in Nat /\ scan.copy.stop \in Nat
    BY DEF TypeOK, Copies
  <2>5. /\ Earned(p, pos[p].stop, peak')
        /\ scan.pc = "marking" => Earned(p, scan.copy.stop, peak')
    BY <1>3, <1>5, <2>3, <2>4, EarnedStays
  <2> QED
    BY <1>1, <1>5, <1>7, <1>8, <2>2, <2>3, <2>5 DEF Present
<1> QED
  BY <1>10, <1>11, <1>12, <1>13

\* The scan reads a position, and stores its copy over what has become of it.
LEMMA MarkSteps ==
  ASSUME GuardInv, LadderInv, ScanWrite \/ \E p \in Positions : ScanRead(p)
  PROVE  GuardInv' /\ LadderInv'
<1> USE DEF GuardInv
<1>1. UNCHANGED <<filled, price, peak, alert, rt, api, own, holds>>
  BY DEF ScanRead, ScanWrite
<1>2. pos \in [Positions -> Copies]
  BY DEF TypeOK
<1>3. ASSUME NEW p \in Positions, ScanRead(p)
      PROVE  GuardInv' /\ LadderInv'
  <2>1. /\ scan' = [pc |-> "marking", of |-> p, copy |-> pos[p]] /\ pos' = pos
        /\ pos[p].status = "OPEN"
    BY <1>3 DEF ScanRead, IsOpen
  <2>2. TypeOK'
    BY <1>1, <1>2, <2>1 DEF TypeOK
  <2>3. Threads' /\ Clock' /\ Present'
    BY <1>1, <2>1 DEF Threads, Clock, Present
  <2>4. \A q \in Positions : Alone(q)' => q = p /\ Alone(q)
    BY <2>1 DEF Alone
  <2>5. LadderInv'
    BY <1>1, <2>1, <2>4 DEF LadderInv
  <2> QED
    BY <2>2, <2>3, <2>5
<1>4. CASE ScanWrite
  <2>1. /\ scan.pc = "marking" /\ scan.of \in Positions /\ scan.copy \in Copies
        /\ scan.copy.status = "OPEN" /\ pos[scan.of].status # "ABSENT"
        /\ pos' = [pos EXCEPT ![scan.of] = scan.copy]
        /\ scan' = [IdleScan EXCEPT !.pc = "manage", !.of = scan.of]
    BY <1>4 DEF ScanWrite, Threads, Present, TypeOK
  <2>2. /\ pos' \in [Positions -> Copies]
        /\ \A q \in Positions : pos'[q] = IF q = scan.of THEN scan.copy ELSE pos[q]
    BY <1>2, <2>1
  <2>3. /\ scan' \in [pc : {"idle", "marking", "manage"}, of : Positions \cup {NoPosition}, copy : Copies]
        /\ scan'.pc = "manage" /\ scan'.of \in Positions
    BY <2>1 DEF IdleScan, Copies, Statuses
  <2>4. TypeOK'
    BY <1>1, <2>2, <2>3 DEF TypeOK
  <2>5. Threads' /\ Clock'
    BY <1>1, <2>3 DEF Threads, Clock
  <2>6. Present'
    BY <1>1, <2>1, <2>2, <2>3 DEF Present, TypeOK
  <2>7. \A q \in Positions : Alone(q)' => q = scan.of /\ Alone(q)
    BY <2>1, <2>2 DEF Alone
  <2>8. LadderInv'
    BY <1>1, <2>1, <2>2, <2>3, <2>7 DEF LadderInv
  <2> QED
    BY <2>4, <2>5, <2>6, <2>8
<1> QED
  BY <1>3, <1>4

\* Every step keeps the invariant.
LEMMA GuardStep ==
  ASSUME GuardInv, LadderInv, [Next]_vars
  PROVE  GuardInv' /\ LadderInv'
<1>1. CASE UNCHANGED vars
  BY <1>1 DEF vars, GuardInv, TypeOK, Threads, Clock, Present, LadderInv, Alone
<1> QED
  BY <1>1, CloseSteps, OpenStep, BeginStep, ExpireStep, OtherSteps, EvaluateStep, MarkSteps
  DEF Next, RtStep, ScanStep, ApiStep

\* The threads, the clock and the ladder, at all times.
THEOREM GuardInvariant == Spec => []GuardInv /\ []LadderInv
<1> QED
  BY GuardStart, GuardStep, PTL DEF Spec

-----------------------------------------------------------------------------
(* What follows.                                                           *)

\* Every value stays in its type: no interleaving of loop, scan and request leaves a
\* negative stop or a warning older than the grace period.
THEOREM GuardTypes == Spec => []TypeOK
<1> QED
  BY GuardInvariant, PTL DEF GuardInv

\* "+3.0R -> lock +2.0R ... +1.0R -> lock breakeven" (real_time_manager.py:226): the
\* stop of a symbol's first position is where it began or where the ladder puts it
\* for a gain that position has had, though a mark may store an old copy over it.
THEOREM StopIsEarned == Spec => []StopEarned
<1>1. GuardInv /\ LadderInv => StopEarned
  <2>1. SUFFICES ASSUME GuardInv, LadderInv, NEW p \in Positions, Alone(p)
                 PROVE  \/ pos[p].stop = FirstStop(p)
                        \/ /\ Trails(Now(p), own)
                           /\ AtLeast(Now(p), TrailingStop(Now(p), own), pos[p].stop)
    BY DEF StopEarned
  <2>2. pos[p] \in Copies /\ own \in Nat /\ Earned(p, pos[p].stop, own)
    BY <2>1 DEF GuardInv, TypeOK, LadderInv
  <2> QED
    BY <2>2, LadderOf DEF Earned, Now
<1> QED
  BY <1>1, GuardInvariant, PTL

\* The protocol that closes positions (danger.py:99) closes nothing on fresh data
\* that the advice shown to the operator (danger.py:216) would have left, for every
\* price, entry and unit of risk.
THEOREM ClosesAreAdvised == Spec => []ClosedOnlyWhenAdvised
<1>1. GuardInv => ClosedOnlyWhenAdvised
  <2>1. SUFFICES ASSUME GuardInv, NEW p \in OpenPositions, NEW close \in CandlePrices,
                        NEW trend \in {"up", "down"},
                        Protocol(Now(p), close, "fresh", trend, FALSE).action = "FAIL_SAFE_CLOSE"
                 PROVE  AdvisedExit(Now(p), close, trend, FALSE) # "none"
    BY DEF ClosedOnlyWhenAdvised
  <2>2. /\ Now(p).status = "OPEN" /\ Now(p).unit = Unit /\ Unit \in Nat /\ Unit > 0
        /\ Now(p).entry = Entry[p] /\ Entry[p] \in Nat /\ close \in Nat /\ p \in Positions
        /\ Now(p).side = IF p \in Long THEN "LONG" ELSE "SHORT"
    BY <2>1, GuardConstants DEF OpenPositions, IsOpen, Now, AsRead, Position
  <2>3. \/ StopHit(Now(p), close) \/ TargetHit(Now(p), close) \/ CriticalLoss(Now(p), close)
    BY <2>1, <2>2 DEF Protocol, Nothing, Distrust, NoValidExit, Assessment
  <2>4. Gain(Now(p), close) \in Int
    BY <2>2 DEF Gain
  <2>5. CriticalLoss(Now(p), close) => AdvisoryLevel(Now(p), close, trend, FALSE) = "CRITICAL"
    <3>1. CriticalLoss(Now(p), close) => LossAtLeast([Now(p) EXCEPT !.unit = Unit], close, 3)
      <4> DEFINE v == [Now(p) EXCEPT !.unit = Unit]
      <4>1. v.side = Now(p).side /\ v.entry = Now(p).entry /\ v.unit = Unit
        BY DEF Now, AsRead, Position
      <4>2. Gain(v, close) = Gain(Now(p), close)
        BY <4>1 DEF Gain
      <4> HIDE DEF v
      <4>3. CriticalLoss(Now(p), close) => LossAtLeast(v, close, 3)
        BY <2>2, <2>4, <4>1, <4>2 DEF CriticalLoss, LossAtLeast
      <4> QED
        BY <4>3 DEF v
    <3> QED
      BY <2>2, <3>1 DEF AdvisoryLevel
  <2> QED
    BY <2>2, <2>3, <2>5 DEF AdvisedExit
<1> QED
  BY <1>1, GuardInvariant, PTL

\* The one-second loop implements the grace period (autoclose.py:7): the clock closes
\* a position only at the end of a whole grace period of a warning about it that
\* nobody dropped.
THEOREM ImplementsGracePeriod == Spec => ImplementsGrace
<1>1. Init => Promise!Init
  BY DEF Init, Promise!Init, NoAlert, Resting
<1>2. GuardInv /\ [Next]_vars => [Promise!Next]_Promise!vars
  <2>1. SUFFICES ASSUME GuardInv, Next
                 PROVE  Promise!Next \/ UNCHANGED <<alert.of, alert.age, rt.of>>
    BY DEF vars, Promise!vars
  <2>2. /\ alert \in [of : Positions \cup {NoPosition}, age : 0..Grace]
        /\ alert.of = NoPosition => alert.age = 0
        /\ rt.pc # "close" => rt.of = NoPosition
        /\ rt.pc = "close" => rt.of \in Positions
        /\ rt.pc # "evaluating" => alert.age < Grace
        /\ rt \in RtType /\ Grace \in Nat /\ NoPosition \notin Positions
    BY <2>1, GuardConstants DEF GuardInv, TypeOK, Threads, Clock, RtType
  <2>3. CASE UNCHANGED <<alert, rt>>
    BY <2>3
  <2>4. ASSUME alert' = NoAlert, rt'.of = rt.of
        PROVE  Promise!Next \/ UNCHANGED <<alert.of, alert.age, rt.of>>
    BY <2>2, <2>4 DEF NoAlert, Promise!Next, Promise!Drop
  <2>5. CASE RtBegin
    <3>1. rt'.of = rt.of /\ rt.pc = "idle"
      BY <2>2, <2>5 DEF RtBegin, RtType
    <3>2. CASE alert.of # NoPosition /\ alert' = [alert EXCEPT !.age = @ + 1]
      <4>1. alert'.of = alert.of /\ alert'.age = alert.age + 1
        BY <2>2, <3>2
      <4> QED
        BY <2>2, <3>1, <3>2, <4>1 DEF Promise!Next, Promise!Wait
    <3> QED
      BY <2>4, <2>5, <3>1, <3>2 DEF RtBegin
  <2>6. ASSUME NEW p \in Positions, RtEvaluate(p)
        PROVE  Promise!Next \/ UNCHANGED <<alert.of, alert.age, rt.of>>
    <3>1. rt'.of = rt.of /\ rt.of = NoPosition
      BY <2>2, <2>6 DEF RtEvaluate, RtType
    <3>2. Trigger(p) \/ UNCHANGED alert
      BY <2>6, Zenon DEF RtEvaluate
    <3>3. CASE alert.of = NoPosition /\ alert' = [of |-> p, age |-> 0]
      BY <3>1, <3>3 DEF Promise!Next, Promise!Warn
    <3> QED
      BY <3>1, <3>2, <3>3 DEF Trigger
  <2>7. CASE RtExpire
    <3>1. CASE Due(alert) /\ alert' = NoAlert /\ rt' = [rt EXCEPT !.pc = "close", !.of = alert.of]
      <4>1. /\ alert.of # NoPosition /\ alert.age = Grace /\ rt.of = NoPosition
            /\ rt'.of = alert.of /\ alert'.of = NoPosition /\ alert'.age = 0
        BY <2>2, <2>7, <3>1 DEF Due, RtExpire, RtType, NoAlert
      <4> QED
        BY <4>1 DEF Promise!Next, Promise!Send
    <3>2. CASE rt' = Resting /\ UNCHANGED alert
      BY <2>2, <2>7, <3>2 DEF RtExpire, Resting
    <3> QED
      BY <2>7, <3>1, <3>2 DEF RtExpire
  <2>8. CASE RtClose
    BY <2>2, <2>8 DEF RtClose, Resting, Promise!Next, Promise!Sent
  <2>9. CASE ApiHold \/ ApiConfirm
    BY <2>4, <2>9 DEF ApiHold, ApiConfirm
  <2> QED
    BY <2>1, <2>3, <2>5, <2>6, <2>7, <2>8, <2>9
    DEF Next, RtStep, ScanStep, ApiStep, Open, PriceMoves, ScanRead, ScanWrite, ScanManage,
        ApiBegin, ApiClose
<1> QED
  BY <1>1, <1>2, GuardInvariant, PTL DEF Spec, ImplementsGrace, Promise!Spec
===============================================================================
