---------------------------- MODULE Clients_proofs ----------------------------
(***************************************************************************)
(* Proofs about the clients of other servers: MarketFeed, for any callers, *)
(* weights and size of the universe; CandleStream, for any symbols, open   *)
(* times and number of reconnections; TelegramBot, for any number of       *)
(* messages and crashes.                                                   *)
(***************************************************************************)
EXTENDS MarketFeed, CandleStream, TelegramBot, Sums, FiniteSetTheorems, TLAPS

-----------------------------------------------------------------------------
(* The scan.                                                               *)

\* The scan's own state: its request belongs to a symbol it still asks for, it cannot
\* find more usable symbols than it asked for, and no failure is on record only after
\* a scan that lost nothing.
ScanInv ==
  /\ call \in [Callers -> [pc : {"idle", "sending", "waiting"}, attempt : Int, reported : Int]]
  /\ spent \in Int
  /\ scanned \in [left : 0..UniverseSize, usable : 0..UniverseSize]
  /\ health \in [failures : 0..MaxDataFailures, total : {0, UniverseSize},
                 usable : 0..UniverseSize]
  /\ call[Scanner].pc # "idle" => scanned.left > 0
  /\ scanned.left + scanned.usable <= UniverseSize
  /\ health.failures = 0 => health.usable = health.total

\* A reading is healthy exactly when no failure is on record.
LEMMA HealthyMeansNoFailure ==
  ASSUME ScanInv
  PROVE  DataHealth = "HEALTHY" <=> health.failures = 0
<1>1. health.failures \in 0..MaxDataFailures /\ MaxDataFailures \in Nat \ {0}
  BY FeedConstants DEF ScanInv
<1>2. CASE health.failures = 0
  <2>1. ~(health.failures >= MaxDataFailures) /\ health.failures \notin 1..(MaxDataFailures - 1)
    BY <1>1, <1>2
  <2> QED
    BY <1>2, <2>1 DEF DataHealth
<1>3. CASE health.failures # 0
  <2>1. health.failures >= MaxDataFailures \/ health.failures \in 1..(MaxDataFailures - 1)
    BY <1>1, <1>3
  <2> QED
    BY <1>3, <2>1 DEF DataHealth
<1> QED
  BY <1>2, <1>3

\* The record of a finished scan.
LEMMA RecordedHealth ==
  ASSUME ScanInv, NEW got \in 0..UniverseSize
  PROVE  /\ Recorded(got) \in [failures : 0..MaxDataFailures, total : {0, UniverseSize},
                               usable : 0..UniverseSize]
         /\ Recorded(got).failures = 0 => Recorded(got).usable = Recorded(got).total
<1>1. /\ health.failures \in 0..MaxDataFailures /\ MaxDataFailures \in Nat \ {0}
      /\ UniverseSize \in Nat \ {0}
  BY FeedConstants DEF ScanInv
<1>2. CASE ~DataFailed(got)
  BY <1>1, <1>2 DEF Recorded, DataFailed
<1>3. CASE DataFailed(got) /\ health.failures < MaxDataFailures
  BY <1>1, <1>3 DEF Recorded
<1>4. CASE DataFailed(got) /\ ~(health.failures < MaxDataFailures)
  BY <1>1, <1>4 DEF Recorded
<1> QED
  BY <1>2, <1>3, <1>4

-----------------------------------------------------------------------------
(* The steps.                                                              *)

\* A scan starts with all its symbols, or ends at once without a failure.
LEMMA ScanBeginsStep ==
  ASSUME ScanInv, ScanBegins
  PROVE  ScanInv'
<1>1. /\ call[Scanner].pc = "idle" /\ UNCHANGED <<call, spent>>
      /\ \/ scanned' = [left |-> UniverseSize, usable |-> 0] /\ UNCHANGED health
         \/ /\ health' = [failures |-> 0, total |-> 0, usable |-> 0]
            /\ UNCHANGED scanned
  BY DEF ScanBegins
<1>2. 0 \in 0..UniverseSize /\ UniverseSize \in 0..UniverseSize /\ 0 \in 0..MaxDataFailures
      /\ UniverseSize + 0 <= UniverseSize
  BY FeedConstants
<1>3. CASE scanned' = [left |-> UniverseSize, usable |-> 0] /\ UNCHANGED health
  BY <1>1, <1>2, <1>3 DEF ScanInv
<1>4. CASE health' = [failures |-> 0, total |-> 0, usable |-> 0] /\ UNCHANGED scanned
  BY <1>1, <1>2, <1>4 DEF ScanInv
<1> QED
  BY <1>1, <1>3, <1>4

\* Requests in flight and the turn of a minute touch no scan result.
LEMMA RequestStep ==
  ASSUME ScanInv, NEW c \in Callers, Acquire(c) \/ Send(c) \/ Retry(c)
  PROVE  ScanInv'
<1>1. UNCHANGED <<scanned, health>>
  BY DEF Acquire, Send, Retry
<1>2. spent' \in Int
  BY FeedConstants DEF Acquire, Send, Retry, ScanInv
<1>3. call' \in [Callers -> [pc : {"idle", "sending", "waiting"}, attempt : Int, reported : Int]]
  <2>1. CASE Acquire(c)
    BY <2>1 DEF Acquire, ScanInv
  <2>2. CASE Send(c)
    <3>1. \/ call' = [call EXCEPT ![c].pc = "waiting", ![c].reported = spent']
          \/ call' = [call EXCEPT ![c].pc = "waiting", ![c].reported = 0]
      BY <2>2 DEF Send
    <3> QED
      BY <1>2, <3>1 DEF ScanInv
  <2>3. CASE Retry(c)
    <3>1. call' = [call EXCEPT ![c].pc = "sending", ![c].reported = 0, ![c].attempt = @ + 1]
      BY <2>3 DEF Retry
    <3>2. call[c].attempt + 1 \in Int
      BY DEF ScanInv
    <3> QED
      BY <3>1, <3>2 DEF ScanInv
  <2> QED
    BY <2>1, <2>2, <2>3
<1>4. call'[Scanner].pc # "idle" => scanned.left > 0
  <2>1. CASE c # Scanner
    <3>1. call'[Scanner] = call[Scanner]
      BY <2>1, FeedConstants DEF Acquire, Send, Retry, ScanInv
    <3> QED
      BY <3>1 DEF ScanInv
  <2>2. CASE c = Scanner
    BY <2>2 DEF Acquire, Send, Retry, ScanInv
  <2> QED
    BY <2>1, <2>2
<1> QED
  BY <1>1, <1>2, <1>3, <1>4 DEF ScanInv

\* An answer ends the request, and with the last symbol the scan.
LEMMA ReturnedStep ==
  ASSUME ScanInv, NEW c \in Callers, NEW usable \in BOOLEAN,
         call[c].pc = "waiting", Returned(c, usable), UNCHANGED spent
  PROVE  ScanInv'
<1>1. NoCall \in [pc : {"idle", "sending", "waiting"}, attempt : Int, reported : Int]
  BY DEF NoCall
<1>2. /\ call' = [call EXCEPT ![c] = NoCall]
      /\ call' \in [Callers -> [pc : {"idle", "sending", "waiting"}, attempt : Int, reported : Int]]
      /\ call'[c].pc = "idle"
  BY <1>1 DEF Returned, NoCall, ScanInv
<1>3. CASE c # Scanner
  <2>1. call'[Scanner] = call[Scanner] /\ UNCHANGED <<scanned, health>>
    BY <1>2, <1>3, FeedConstants DEF Returned, ScanInv
  <2> QED
    BY <1>2, <2>1 DEF ScanInv
<1>4. CASE c = Scanner
  <2> DEFINE got == scanned.usable + IF usable THEN 1 ELSE 0
  <2>1. /\ scanned' = [left |-> scanned.left - 1,
                       usable |-> IF scanned.left = 1 THEN 0 ELSE got]
        /\ health' = IF scanned.left = 1 THEN Recorded(got) ELSE health
    BY <1>4 DEF Returned
  <2>2. /\ scanned.left \in 0..UniverseSize /\ scanned.left > 0
        /\ scanned.usable \in 0..UniverseSize /\ scanned.left + scanned.usable <= UniverseSize
    BY <1>4 DEF ScanInv
  <2>3. got \in 0..UniverseSize /\ (scanned.left - 1) + got <= UniverseSize
    BY <2>2, FeedConstants
  <2>4. /\ scanned' \in [left : 0..UniverseSize, usable : 0..UniverseSize]
        /\ scanned'.left + scanned'.usable <= UniverseSize
    <3>1. scanned.left - 1 \in 0..UniverseSize /\ 0 \in 0..UniverseSize
      BY <2>2, FeedConstants
    <3> HIDE DEF got
    <3>2. CASE scanned.left = 1
      BY <2>1, <2>2, <3>1, <3>2, FeedConstants
    <3>3. CASE scanned.left # 1
      BY <2>1, <2>3, <3>1, <3>3
    <3> QED
      BY <3>2, <3>3
  <2>5. /\ health' \in [failures : 0..MaxDataFailures, total : {0, UniverseSize},
                        usable : 0..UniverseSize]
        /\ health'.failures = 0 => health'.usable = health'.total
    <3> HIDE DEF got
    <3> QED
      BY <2>1, <2>3, RecordedHealth DEF ScanInv
  <2> QED
    BY <1>2, <1>4, <2>4, <2>5 DEF ScanInv
<1> QED
  BY <1>3, <1>4

\* Every step keeps the invariant.
LEMMA FeedStepKeeps ==
  ASSUME ScanInv, [FeedNext]_feedVars
  PROVE  ScanInv'
<1>1. CASE NewMinute \/ UNCHANGED feedVars
  BY <1>1 DEF NewMinute, feedVars, ScanInv
<1>2. ASSUME NEW c \in Callers, Succeed(c) \/ Fail(c)
      PROVE  ScanInv'
  <2>1. call[c].pc = "waiting" /\ UNCHANGED spent /\ \E usable \in BOOLEAN : Returned(c, usable)
    BY <1>2 DEF Succeed, Fail
  <2> QED
    BY <2>1, ReturnedStep
<1> QED
  BY <1>1, <1>2, ScanBeginsStep, RequestStep DEF FeedNext, FeedStep

\* The scan's bookkeeping.
THEOREM ScanInvariant == FeedSpec => []ScanInv
<1>1. FeedInit => ScanInv
  <2>1. 0 \in 0..UniverseSize /\ 0 \in 0..MaxDataFailures /\ Scanner \in Callers /\ 0 + 0 <= UniverseSize
    BY FeedConstants
  <2> QED
    BY <2>1 DEF FeedInit, ScanInv, NoCall
<1> QED
  BY <1>1, FeedStepKeeps, PTL DEF FeedSpec

\* A scan that asked for symbols and lost one never reads as healthy
\* (runtime/health.py's record_scan and data_health), whatever the exchange answers.
THEOREM LossesAreSeen == FeedSpec => []LossIsSeen
<1>1. ScanInv => LossIsSeen
  BY HealthyMeansNoFailure DEF LossIsSeen, ScanInv
<1> QED
  BY <1>1, ScanInvariant, PTL

-----------------------------------------------------------------------------
(* The weight of a minute.                                                 *)

\* The weight a request may still ask for: all attempts but those that were sent.
Due(c) ==
  CASE call[c].pc = "sending" -> MaxRetries + 1 - call[c].attempt
    [] call[c].pc = "waiting" -> MaxRetries - call[c].attempt
    [] OTHER -> 0
Left == [c \in Callers |-> Due(c) * Charge[c]]

\* What was spent in the minute and what may still be is covered by the limiter's own
\* count of the minute and by one full request of every caller, admitted before it.
BudgetInv ==
  /\ limiter \in [current : BOOLEAN, client : 0..MaxWeight, server : Nat]
  /\ call \in [Callers -> [pc : {"idle", "sending", "waiting"},
                           attempt : 0..MaxRetries, reported : Nat]]
  /\ spent \in Nat
  /\ spent + SumFunctionOnSet(Left, Callers)
       <= (MaxRetries + 1) * (SumFunctionOnSet(Charge, Callers) + Rolled.client)

\* Reports of the weight used are no larger than what can be used.
ReportInv ==
  /\ limiter.server <= MostSpent
  /\ \A c \in Callers : call[c].reported <= MostSpent

\* Numbers.
LEMMA FeedNumbers ==
  /\ IsFiniteSet(Callers) /\ MaxRetries \in Nat /\ MaxRetries + 1 \in Nat /\ MaxWeight \in Nat
  /\ \A c \in Callers : Charge[c] \in Nat /\ Charge[c] <= MaxWeight
  /\ SumFunctionOnSet(Charge, Callers) \in Nat
  /\ SumFunction(Charge) = SumFunctionOnSet(Charge, Callers)
<1>1. /\ IsFiniteSet(Callers) /\ MaxRetries \in Nat /\ MaxWeight \in Nat
      /\ \A c \in Callers : Charge[c] \in Nat /\ Charge[c] <= MaxWeight
      /\ DOMAIN Charge = Callers
  BY FeedConstants
<1>2. SumFunctionOnSet(Charge, Callers) \in Nat
  BY <1>1, SumType
<1> QED
  BY <1>1, <1>2 DEF SumFunction

\* What the requests may still ask for is at most one full request each.
LEMMA LeftType ==
  ASSUME BudgetInv
  PROVE  /\ Left \in [Callers -> Nat] /\ SumFunctionOnSet(Left, Callers) \in Nat
         /\ SumFunctionOnSet(Left, Callers) <= (MaxRetries + 1) * SumFunctionOnSet(Charge, Callers)
         /\ Rolled.client \in 0..MaxWeight
<1>1. \A c \in Callers : Due(c) \in 0..(MaxRetries + 1)
  BY FeedNumbers DEF Due, BudgetInv
<1>2. ASSUME NEW c \in Callers
      PROVE  Due(c) * Charge[c] \in Nat /\ Due(c) * Charge[c] <= (MaxRetries + 1) * Charge[c]
  <2>1. \A n, k, m \in Nat : n <= k => n * m \in Nat /\ n * m <= k * m
    OBVIOUS
  <2> QED
    BY <1>1, <2>1, FeedNumbers
<1>3. Left \in [Callers -> Nat]
  BY <1>2 DEF Left
<1> DEFINE full == [c \in Callers |-> (MaxRetries + 1) * Charge[c]]
<1>4. \A c \in Callers : full[c] \in Nat /\ full[c] = (MaxRetries + 1) * Charge[c] /\ Left[c] <= full[c]
  BY <1>2, FeedNumbers DEF Left
<1> HIDE DEF full
<1>5. SumFunctionOnSet(full, Callers) = (MaxRetries + 1) * SumFunctionOnSet(Charge, Callers)
  <2> DEFINE k == MaxRetries + 1
  <2>1. k \in Nat /\ IsFiniteSet(Callers) /\ \A x \in Callers : Charge[x] \in Nat /\ full[x] = k * Charge[x]
    BY <1>4, FeedNumbers
  <2> HIDE DEF k
  <2>2. SumFunctionOnSet(full, Callers) = k * SumFunctionOnSet(Charge, Callers)
    BY <2>1, SumScale
  <2> QED
    BY <2>2 DEF k
<1>6. SumFunctionOnSet(Left, Callers) <= SumFunctionOnSet(full, Callers)
  <2>1. Callers \in SUBSET Callers /\ \A x \in Callers : Left[x] \in Nat /\ full[x] \in Nat
    BY <1>3, <1>4
  <2> QED
    BY <1>4, <2>1, FeedNumbers, SumMonotone
<1>7. SumFunctionOnSet(Left, Callers) \in Nat
  BY <1>3, FeedNumbers, SumType
<1>8. Rolled.client \in 0..MaxWeight
  BY FeedNumbers DEF Rolled, BudgetInv
<1> QED
  BY <1>3, <1>5, <1>6, <1>7, <1>8

\* So the minute's weight is bounded.
LEMMA BudgetBounds ==
  ASSUME BudgetInv
  PROVE  spent <= MostSpent /\ MostSpent \in Nat
<1> DEFINE k == MaxRetries + 1
           all == SumFunctionOnSet(Charge, Callers)
<1>1. spent <= k * (all + Rolled.client)
  <2>1. SumFunctionOnSet(Left, Callers) \in Nat /\ spent \in Nat /\ Rolled.client \in Nat
    BY LeftType DEF BudgetInv
  <2>2. spent + SumFunctionOnSet(Left, Callers) <= k * (all + Rolled.client)
    BY DEF BudgetInv
  <2>3. k * (all + Rolled.client) \in Nat
    BY <2>1, FeedNumbers
  <2> HIDE DEF k, all
  <2> QED
    BY <2>1, <2>2, <2>3
<1>2. k \in Nat /\ all \in Nat /\ Rolled.client \in Nat /\ Rolled.client <= MaxWeight /\ MaxWeight \in Nat
      /\ spent \in Nat
  BY FeedNumbers, LeftType DEF BudgetInv
<1>3. MostSpent = k * (MaxWeight + all)
  BY FeedNumbers DEF MostSpent
<1> HIDE DEF k, all
<1>4. k * (all + Rolled.client) <= k * (MaxWeight + all) /\ k * (MaxWeight + all) \in Nat
      /\ k * (all + Rolled.client) \in Nat
  <2>1. \A n, x, y \in Nat : x <= y => n * x \in Nat /\ n * y \in Nat /\ n * x <= n * y
    OBVIOUS
  <2> QED
    BY <1>2, <2>1
<1> QED
  BY <1>1, <1>2, <1>3, <1>4

\* A step in which one request may ask for less than before, or for as much, and the
\* exchange counts what it sent.
LEMMA BudgetMoves ==
  ASSUME BudgetInv, NEW c \in Callers,
         NEW more \in Nat,
         limiter' \in [current : BOOLEAN, client : 0..MaxWeight, server : Nat],
         call' \in [Callers -> [pc : {"idle", "sending", "waiting"},
                                attempt : 0..MaxRetries, reported : Nat]],
         \A d \in Callers \ {c} : call'[d] = call[d],
         spent' = spent + more, more + Left'[c] <= Left[c],
         Rolled'.client = Rolled.client
  PROVE  BudgetInv'
<1>1. Left \in [Callers -> Nat] /\ SumFunctionOnSet(Left, Callers) \in Nat /\ IsFiniteSet(Callers)
  BY LeftType, FeedNumbers
<1>2. \A d \in Callers : Due(d)' \in Nat
  <2>1. \A d \in Callers : call'[d].attempt \in Nat /\ call'[d].attempt <= MaxRetries
    BY FeedNumbers
  <2> QED
    BY <2>1, FeedNumbers DEF Due
<1>3. Left' \in [Callers -> Nat]
  BY <1>2, FeedNumbers DEF Left
<1>4. \A d \in Callers \ {c} : Left'[d] = Left[d]
  BY DEF Left, Due
<1>5. \A x \in Callers : Left[x] \in Nat /\ Left'[x] \in Nat
  BY <1>1, <1>3
<1>6. SumFunctionOnSet(Left', Callers) + Left[c] = SumFunctionOnSet(Left, Callers) + Left'[c]
  BY <1>1, <1>4, <1>5, SumChange
<1>7. SumFunctionOnSet(Left', Callers) \in Nat
  BY <1>1, <1>5, SumType
<1>8. spent' \in Nat /\ spent \in Nat
  BY DEF BudgetInv
<1>9. spent' + SumFunctionOnSet(Left', Callers) <= spent + SumFunctionOnSet(Left, Callers)
  BY <1>1, <1>5, <1>6, <1>7, <1>8
<1> DEFINE room == (MaxRetries + 1) * (SumFunctionOnSet(Charge, Callers) + Rolled.client)
<1>10. room \in Nat /\ spent + SumFunctionOnSet(Left, Callers) <= room
  BY LeftType, FeedNumbers DEF BudgetInv
<1>11. spent' + SumFunctionOnSet(Left', Callers)
         <= (MaxRetries + 1) * (SumFunctionOnSet(Charge, Callers) + Rolled'.client)
  <2>1. room = (MaxRetries + 1) * (SumFunctionOnSet(Charge, Callers) + Rolled'.client)
    OBVIOUS
  <2> HIDE DEF room
  <2>2. spent' + SumFunctionOnSet(Left', Callers) <= room
    BY <1>1, <1>7, <1>8, <1>9, <1>10
  <2> QED
    BY <2>1, <2>2
<1> QED
  BY <1>8, <1>11 DEF BudgetInv

\* The limiter looks at the minute, and takes over what an answer says of it.
LEMMA ReportMoves ==
  ASSUME BudgetInv, NEW c \in Callers, Reported(c) \/ UNCHANGED limiter
  PROVE  /\ limiter' \in [current : BOOLEAN, client : 0..MaxWeight, server : Nat]
         /\ Rolled'.client = Rolled.client
<1>1. Rolled \in [current : BOOLEAN, client : 0..MaxWeight, server : Nat]
      /\ (~limiter.current => Rolled.client = 0) /\ Rolled.current = TRUE
  BY FeedNumbers DEF Rolled, BudgetInv
<1>2. CASE Reported(c)
  <2>1. Larger(Rolled.server, call[c].reported) \in Nat
    BY <1>1 DEF Larger, BudgetInv
  <2>2. limiter' = [Rolled EXCEPT !.server = Larger(Rolled.server, call[c].reported)]
    BY <1>2 DEF Reported
  <2>3. /\ limiter' \in [current : BOOLEAN, client : 0..MaxWeight, server : Nat]
        /\ limiter'.current = TRUE /\ limiter'.client = Rolled.client
    BY <1>1, <2>1, <2>2
  <2> QED
    BY <2>3 DEF Rolled
<1>3. CASE UNCHANGED limiter
  BY <1>3 DEF Rolled, BudgetInv
<1> QED
  BY <1>2, <1>3

\* A request is admitted: it may ask for all its attempts, and is counted once.
LEMMA AcquireKeeps ==
  ASSUME BudgetInv, NEW c \in Callers, Acquire(c)
  PROVE  BudgetInv'
<1>1. /\ call[c].pc = "idle"
      /\ Larger(Rolled.client, Rolled.server) + Charge[c] <= MaxWeight
      /\ limiter' = [Rolled EXCEPT !.client = @ + Charge[c]]
      /\ call' = [call EXCEPT ![c].pc = "sending"]
      /\ spent' = spent
  BY DEF Acquire
<1>2. Rolled \in [current : BOOLEAN, client : 0..MaxWeight, server : Nat] /\ Rolled.current = TRUE
  BY FeedNumbers DEF Rolled, BudgetInv
<1>3. Rolled.client + Charge[c] \in 0..MaxWeight
  BY <1>1, <1>2, FeedNumbers DEF Larger
<1>4. /\ limiter' \in [current : BOOLEAN, client : 0..MaxWeight, server : Nat]
      /\ limiter'.current = TRUE /\ limiter'.client = Rolled.client + Charge[c]
  BY <1>1, <1>2, <1>3
<1>5. Rolled'.client = Rolled.client + Charge[c]
  BY <1>4 DEF Rolled
<1>6. /\ call' \in [Callers -> [pc : {"idle", "sending", "waiting"},
                                attempt : 0..MaxRetries, reported : Nat]]
      /\ \A d \in Callers \ {c} : call'[d] = call[d]
      /\ call'[c].pc = "sending" /\ call'[c].attempt \in Nat
  BY <1>1, FeedNumbers DEF BudgetInv
<1>7. \A d \in Callers : Due(d)' \in Nat
  <2>1. \A d \in Callers : call'[d].attempt \in Nat /\ call'[d].attempt <= MaxRetries
    BY <1>6, FeedNumbers
  <2> QED
    BY <2>1, FeedNumbers DEF Due
<1>8. /\ Left \in [Callers -> Nat] /\ SumFunctionOnSet(Left, Callers) \in Nat
      /\ \A x \in Callers : Left[x] \in Nat /\ Left'[x] \in Nat
      /\ \A x \in Callers \ {c} : Left'[x] = Left[x]
  BY <1>6, <1>7, FeedNumbers, LeftType DEF Left, Due
<1>9. Left[c] = 0
  <2>1. Due(c) = 0
    BY <1>1 DEF Due
  <2> QED
    BY <2>1, FeedNumbers DEF Left
<1>10. Left'[c] <= (MaxRetries + 1) * Charge[c]
  <2>1. Due(c)' <= MaxRetries + 1
    BY <1>6, FeedNumbers DEF Due
  <2>2. \A n, k, m \in Nat : n <= k => n * m <= k * m
    OBVIOUS
  <2> QED
    BY <1>7, <2>1, <2>2, FeedNumbers DEF Left
<1>11. SumFunctionOnSet(Left', Callers) + Left[c] = SumFunctionOnSet(Left, Callers) + Left'[c]
       /\ SumFunctionOnSet(Left', Callers) \in Nat
  BY <1>8, FeedNumbers, SumChange, SumType
<1> DEFINE k == MaxRetries + 1
           all == SumFunctionOnSet(Charge, Callers)
<1>12. spent + SumFunctionOnSet(Left, Callers) <= k * (all + Rolled.client) /\ spent \in Nat
  BY DEF BudgetInv
<1>13. k \in Nat /\ all \in Nat /\ Rolled.client \in Nat /\ Charge[c] \in Nat /\ Left'[c] \in Nat
       /\ Left'[c] <= k * Charge[c]
  BY <1>2, <1>8, <1>10, FeedNumbers
<1>14. spent + SumFunctionOnSet(Left', Callers) <= k * (all + (Rolled.client + Charge[c]))
  <2> HIDE DEF k, all
  <2>1. \A a, r, m \in Nat : k * (a + (r + m)) = k * (a + r) + k * m /\ k * (a + r) \in Nat /\ k * m \in Nat
    BY <1>13
  <2>2. k * (all + (Rolled.client + Charge[c])) = k * (all + Rolled.client) + k * Charge[c]
        /\ k * (all + Rolled.client) \in Nat /\ k * Charge[c] \in Nat
    BY <1>13, <2>1
  <2> QED
    BY <1>8, <1>9, <1>11, <1>12, <1>13, <2>2
<1> QED
  BY <1>1, <1>4, <1>5, <1>6, <1>12, <1>14 DEF BudgetInv

\* Every step keeps the minute within its bound.
LEMMA BudgetKeeps ==
  ASSUME BudgetInv, [FeedNext]_feedVars
  PROVE  BudgetInv'
<1>1. \A c \in Callers : /\ call[c].attempt \in Nat /\ call[c].attempt <= MaxRetries
                         /\ Charge[c] \in Nat /\ MaxRetries \in Nat
  BY FeedNumbers DEF BudgetInv
<1>2. CASE UNCHANGED <<limiter, call, spent>>
  BY <1>2 DEF BudgetInv, Left, Due, Rolled
<1>3. ASSUME NEW c \in Callers, Send(c)
      PROVE  BudgetInv'
  <2>1. /\ call[c].pc = "sending" /\ limiter' = limiter
        /\ \/ spent' = spent + Charge[c] /\ call' = [call EXCEPT ![c].pc = "waiting", ![c].reported = spent']
           \/ spent' = spent + 0 /\ call' = [call EXCEPT ![c].pc = "waiting", ![c].reported = 0]
    BY <1>3 DEF Send, BudgetInv
  <2>2. spent' \in Nat
    BY <1>1, <2>1 DEF BudgetInv
  <2>3. /\ call' \in [Callers -> [pc : {"idle", "sending", "waiting"},
                                  attempt : 0..MaxRetries, reported : Nat]]
        /\ \A d \in Callers \ {c} : call'[d] = call[d]
        /\ call'[c].pc = "waiting" /\ call'[c].attempt = call[c].attempt
    BY <2>1, <2>2 DEF BudgetInv
  <2>4. Charge[c] + Left'[c] <= Left[c] /\ 0 + Left'[c] <= Left[c]
    <3>1. Left[c] = (MaxRetries + 1 - call[c].attempt) * Charge[c]
      BY <2>1 DEF Left, Due
    <3>2. Left'[c] = (MaxRetries - call[c].attempt) * Charge[c]
      BY <2>3 DEF Left, Due
    <3>3. \A n, a, m \in Nat : a <= n => (n + 1 - a) * m = (n - a) * m + m /\ (n - a) * m \in Nat
      OBVIOUS
    <3> QED
      BY <1>1, <3>1, <3>2, <3>3
  <2>5. limiter' \in [current : BOOLEAN, client : 0..MaxWeight, server : Nat]
        /\ Rolled'.client = Rolled.client
    BY <2>1, ReportMoves
  <2>6. CASE spent' = spent + Charge[c]
    BY <1>1, <2>3, <2>4, <2>5, <2>6, BudgetMoves
  <2>7. CASE spent' = spent + 0
    BY <1>1, <2>3, <2>4, <2>5, <2>7, BudgetMoves
  <2> QED
    BY <2>1, <2>6, <2>7
<1>4. ASSUME NEW c \in Callers, Retry(c)
      PROVE  BudgetInv'
  <2>1. /\ call[c].pc = "waiting" /\ call[c].attempt < MaxRetries /\ spent' = spent + 0
        /\ call' = [call EXCEPT ![c].pc = "sending", ![c].reported = 0, ![c].attempt = @ + 1]
        /\ Reported(c) \/ UNCHANGED limiter
    BY <1>4 DEF Retry, MayRetry, ErrorReported, BudgetInv
  <2>2. call[c].attempt + 1 \in 0..MaxRetries
    BY <1>1, <2>1
  <2>3. /\ call' \in [Callers -> [pc : {"idle", "sending", "waiting"},
                                  attempt : 0..MaxRetries, reported : Nat]]
        /\ \A d \in Callers \ {c} : call'[d] = call[d]
        /\ call'[c].pc = "sending" /\ call'[c].attempt = call[c].attempt + 1
    BY <2>1, <2>2 DEF BudgetInv
  <2>4. 0 + Left'[c] <= Left[c]
    <3>1. Left[c] = (MaxRetries - call[c].attempt) * Charge[c]
      BY <2>1 DEF Left, Due
    <3>2. Left'[c] = (MaxRetries + 1 - (call[c].attempt + 1)) * Charge[c]
      BY <2>3 DEF Left, Due
    <3>3. MaxRetries + 1 - (call[c].attempt + 1) = MaxRetries - call[c].attempt
      BY <1>1
    <3>4. \A n, a, m \in Nat : a <= n => (n - a) * m \in Nat
      OBVIOUS
    <3> QED
      BY <1>1, <3>1, <3>2, <3>3, <3>4
  <2>5. limiter' \in [current : BOOLEAN, client : 0..MaxWeight, server : Nat]
        /\ Rolled'.client = Rolled.client
    BY <2>1, ReportMoves
  <2> QED
    BY <2>1, <2>3, <2>4, <2>5, BudgetMoves
<1>5. ASSUME NEW c \in Callers, Succeed(c) \/ Fail(c)
      PROVE  BudgetInv'
  <2>1. /\ spent' = spent + 0 /\ call' = [call EXCEPT ![c] = NoCall]
        /\ Reported(c) \/ UNCHANGED limiter
    BY <1>5 DEF Succeed, Fail, Returned, ErrorReported, BudgetInv
  <2>2. NoCall \in [pc : {"idle", "sending", "waiting"}, attempt : 0..MaxRetries, reported : Nat]
    BY FeedNumbers DEF NoCall
  <2>3. /\ call' \in [Callers -> [pc : {"idle", "sending", "waiting"},
                                  attempt : 0..MaxRetries, reported : Nat]]
        /\ \A d \in Callers \ {c} : call'[d] = call[d]
        /\ call'[c].pc = "idle"
    BY <2>1, <2>2 DEF BudgetInv, NoCall
  <2>4. 0 + Left'[c] <= Left[c]
    <3>1. Due(c)' = 0
      BY <2>3 DEF Due
    <3>2. Left'[c] = 0
      BY <1>1, <3>1 DEF Left
    <3>3. Left[c] \in Nat
      BY LeftType
    <3> QED
      BY <3>2, <3>3
  <2>5. limiter' \in [current : BOOLEAN, client : 0..MaxWeight, server : Nat]
        /\ Rolled'.client = Rolled.client
    BY <2>1, ReportMoves
  <2> QED
    BY <2>1, <2>3, <2>4, <2>5, BudgetMoves
<1>6. CASE NewMinute
  <2>1. spent' = 0 /\ limiter' = [limiter EXCEPT !.current = FALSE] /\ call' = call
    BY <1>6 DEF NewMinute
  <2>2. /\ limiter' \in [current : BOOLEAN, client : 0..MaxWeight, server : Nat]
        /\ Rolled'.client = 0
    BY <2>1 DEF BudgetInv, Rolled
  <2>3. Left' = Left
    BY <2>1 DEF Left, Due
  <2>4. SumFunctionOnSet(Left, Callers) \in Nat
        /\ SumFunctionOnSet(Left, Callers) <= (MaxRetries + 1) * SumFunctionOnSet(Charge, Callers)
    BY LeftType
  <2>5. SumFunctionOnSet(Charge, Callers) + Rolled'.client = SumFunctionOnSet(Charge, Callers)
    BY <2>2, FeedNumbers
  <2> QED
    BY <2>1, <2>2, <2>3, <2>4, <2>5 DEF BudgetInv
<1> QED
  BY <1>2, <1>3, <1>4, <1>5, <1>6, AcquireKeeps DEF FeedNext, FeedStep, ScanBegins, feedVars

\* The first minute.
LEMMA BudgetStart ==
  ASSUME FeedInit
  PROVE  BudgetInv
<1>1. /\ limiter = [current |-> TRUE, client |-> 0, server |-> 0]
      /\ call = [c \in Callers |-> NoCall] /\ spent = 0
  BY DEF FeedInit
<1>2. /\ limiter \in [current : BOOLEAN, client : 0..MaxWeight, server : Nat]
      /\ Rolled.client = 0
  BY <1>1, FeedNumbers DEF Rolled
<1>3. call \in [Callers -> [pc : {"idle", "sending", "waiting"},
                            attempt : 0..MaxRetries, reported : Nat]]
  BY <1>1, FeedNumbers DEF NoCall
<1>4. \A c \in Callers : Due(c) = 0
  BY <1>1 DEF Due, NoCall
<1>5. \A c \in Callers : Left[c] = 0
  BY <1>4, FeedNumbers DEF Left
<1>6. SumFunctionOnSet(Left, Callers) = 0
  <2>1. \A c \in Callers : Left[c] \in Nat /\ Left[c] = 0 * Left[c]
    BY <1>5
  <2>2. SumFunctionOnSet(Left, Callers) = 0 * SumFunctionOnSet(Left, Callers)
        /\ SumFunctionOnSet(Left, Callers) \in Nat
    BY <2>1, FeedNumbers, SumScale, SumType
  <2> QED
    BY <2>2
<1>7. (MaxRetries + 1) * (SumFunctionOnSet(Charge, Callers) + Rolled.client) \in Nat
  BY <1>2, FeedNumbers
<1> QED
  BY <1>1, <1>2, <1>3, <1>6, <1>7 DEF BudgetInv

\* Every attempt of a minute is counted against the budget.
LEMMA BudgetInvariant == FeedSpec => []BudgetInv
<1> QED
  BY BudgetStart, BudgetKeeps, PTL DEF FeedSpec

\* The exchange is never asked for more than (max_retries + 1) times the minute's budget
\* and one request of every caller (http_transport.py: acquire, and retries that do not
\* ask it again), whatever it answers and however the minute turns between them.
THEOREM BudgetHolds == FeedSpec => []AttemptsWithinBudget
<1> QED
  BY BudgetInvariant, BudgetBounds, PTL DEF AttemptsWithinBudget

-----------------------------------------------------------------------------
(* Types.                                                                  *)

\* A report was right when it was made, so none is larger than the bound.
LEMMA ReportKeeps ==
  ASSUME BudgetInv, ReportInv, AttemptsWithinBudget', [FeedNext]_feedVars
  PROVE  ReportInv'
<1>1. MostSpent \in Nat /\ 0 <= MostSpent
  BY BudgetBounds
<1>2. Rolled.server <= MostSpent /\ Rolled.server \in Nat
      /\ Rolled \in [current : BOOLEAN, client : 0..MaxWeight, server : Nat]
  BY <1>1, FeedNumbers DEF Rolled, BudgetInv, ReportInv
<1>3. ASSUME NEW c \in Callers
      PROVE  call[c].reported \in Nat /\ call[c].reported <= MostSpent
  BY DEF BudgetInv, ReportInv
<1>4. ASSUME NEW c \in Callers, Reported(c) \/ UNCHANGED limiter
      PROVE  limiter'.server <= MostSpent
  <2>1. CASE Reported(c)
    <3>1. limiter'.server = Larger(Rolled.server, call[c].reported)
      BY <1>2, <2>1 DEF Reported
    <3> QED
      BY <1>2, <1>3, <3>1 DEF Larger
  <2>2. CASE UNCHANGED limiter
    BY <2>2 DEF ReportInv
  <2> QED
    BY <1>4, <2>1, <2>2
<1>5. CASE UNCHANGED <<limiter, call>>
  BY <1>5 DEF ReportInv
<1>6. ASSUME NEW c \in Callers, Acquire(c)
      PROVE  ReportInv'
  <2>1. limiter' = [Rolled EXCEPT !.client = @ + Charge[c]]
        /\ call' = [call EXCEPT ![c].pc = "sending"]
    BY <1>6 DEF Acquire
  <2>2. limiter'.server = Rolled.server /\ \A d \in Callers : call'[d].reported = call[d].reported
    BY <1>2, <2>1 DEF BudgetInv
  <2> QED
    BY <1>2, <1>3, <2>2 DEF ReportInv
<1>7. ASSUME NEW c \in Callers, Send(c)
      PROVE  ReportInv'
  <2>1. limiter' = limiter
        /\ \/ call' = [call EXCEPT ![c].pc = "waiting", ![c].reported = spent']
           \/ call' = [call EXCEPT ![c].pc = "waiting", ![c].reported = 0]
    BY <1>7 DEF Send
  <2>2. \A d \in Callers : call'[d].reported \in {call[d].reported, spent', 0}
    BY <2>1 DEF BudgetInv
  <2>3. spent' <= MostSpent
    BY DEF AttemptsWithinBudget, MostSpent
  <2> QED
    BY <1>1, <1>3, <2>1, <2>2, <2>3 DEF ReportInv
<1>8. ASSUME NEW c \in Callers, Retry(c) \/ Succeed(c) \/ Fail(c)
      PROVE  ReportInv'
  <2>1. limiter'.server <= MostSpent
    BY <1>4, <1>8 DEF Retry, Succeed, Fail, ErrorReported
  <2>2. \/ call' = [call EXCEPT ![c].pc = "sending", ![c].reported = 0, ![c].attempt = @ + 1]
        \/ call' = [call EXCEPT ![c] = NoCall]
    BY <1>8 DEF Retry, Succeed, Fail, Returned
  <2>3. \A d \in Callers : call'[d].reported \in {call[d].reported, 0}
    BY <2>2 DEF BudgetInv, NoCall
  <2> QED
    BY <1>1, <1>3, <2>1, <2>3 DEF ReportInv
<1>9. CASE NewMinute
  BY <1>9 DEF NewMinute, ReportInv, BudgetInv
<1> QED
  BY <1>5, <1>6, <1>7, <1>8, <1>9 DEF FeedNext, FeedStep, ScanBegins, feedVars

\* Types of the request and limiter state: no report of used weight exceeds what the
\* exchange can count in a minute.
THEOREM FeedTypes == FeedSpec => []FeedTypeOK
<1>1. FeedInit => ReportInv
  <2>1. BudgetInv => MostSpent \in Nat /\ 0 <= MostSpent
    BY BudgetBounds
  <2> QED
    BY <2>1, BudgetStart DEF FeedInit, NoCall, ReportInv
<1>2. BudgetInv /\ ReportInv /\ AttemptsWithinBudget' /\ [FeedNext]_feedVars => ReportInv'
  BY ReportKeeps
<1>3. ScanInv /\ BudgetInv /\ ReportInv => FeedTypeOK
  <2> SUFFICES ASSUME ScanInv, BudgetInv, ReportInv
               PROVE  FeedTypeOK
    OBVIOUS
  <2>1. MostSpent \in Nat
    BY BudgetBounds
  <2>2. limiter.server \in 0..MostSpent
        /\ limiter \in [current : BOOLEAN, client : 0..MaxWeight, server : Nat]
    BY <2>1 DEF BudgetInv, ReportInv
  <2>3. limiter \in [current : BOOLEAN, client : 0..MaxWeight, server : 0..MostSpent]
    BY <2>2
  <2>4. call \in [Callers -> [pc : {"idle", "sending", "waiting"},
                              attempt : 0..MaxRetries, reported : 0..MostSpent]]
    <3>1. call \in [Callers -> [pc : {"idle", "sending", "waiting"},
                                attempt : 0..MaxRetries, reported : Nat]]
          /\ \A c \in Callers : call[c].reported <= MostSpent
      BY DEF BudgetInv, ReportInv
    <3>2. \A c \in Callers : call[c].reported \in 0..MostSpent
      BY <2>1, <3>1
    <3> HIDE DEF MostSpent
    <3> QED
      BY <3>1, <3>2
  <2> QED
    BY <2>3, <2>4 DEF FeedTypeOK, ScanInv, BudgetInv
<1> QED
  BY <1>1, <1>2, <1>3, ScanInvariant, BudgetInvariant, BudgetHolds, PTL DEF FeedSpec

-----------------------------------------------------------------------------
(* The stream.                                                             *)

\* A running manager has attempts left; the last open time bounds all that was
\* handed out.
StreamInv ==
  /\ StreamTypeOK
  /\ stream.pc # "stopped" => stream.failures <= MaxReconnects
  /\ \A i \in DOMAIN emitted : emitted[i].time <= lastSeen
  /\ CandlesInOrder

\* A reconnection keeps the manager's type and its budget.
LEMMA ReconnectedType ==
  ASSUME StreamInv, stream.pc # "stopped"
  PROVE  /\ Reconnected \in [pc : {"connecting", "receiving", "stopped"},
                             failures : 0..(MaxReconnects + 1), stop : BOOLEAN]
         /\ Reconnected.pc # "stopped" => Reconnected.failures <= MaxReconnects
<1>1. stream.failures \in 0..MaxReconnects /\ stream.failures + 1 \in 0..(MaxReconnects + 1)
  BY StreamConstants DEF StreamInv, StreamTypeOK
<1>2. CASE stream.stop
  BY <1>2 DEF Reconnected, StreamInv, StreamTypeOK
<1>3. CASE ~stream.stop /\ GivesUp(stream.failures + 1)
  BY <1>1, <1>3 DEF Reconnected, StreamInv, StreamTypeOK
<1>4. CASE ~stream.stop /\ ~GivesUp(stream.failures + 1)
  BY <1>1, <1>4, StreamConstants DEF Reconnected, GivesUp, StreamInv, StreamTypeOK
<1> QED
  BY <1>2, <1>3, <1>4

\* A candle that is handed out is later than all before it.
LEMMA ReceiveStep ==
  ASSUME StreamInv, NEW c \in Candles, Receive(c)
  PROVE  StreamInv'
<1> USE DEF StreamInv
<1>1. CASE stream.stop \/ Duplicate(c)
  <2>1. UNCHANGED <<lastSeen, emitted, reachable>>
    BY <1>1 DEF Receive
  <2>2. stream' = stream \/ stream' = [stream EXCEPT !.pc = "stopped"]
    BY <1>1 DEF Receive
  <2>3. StreamTypeOK' /\ (stream'.pc # "stopped" => stream'.failures <= MaxReconnects)
    BY <2>1, <2>2 DEF StreamTypeOK
  <2> QED
    BY <2>1, <2>3 DEF CandlesInOrder
<1>2. CASE ~stream.stop /\ ~Duplicate(c)
  <2>1. /\ stream.pc = "receiving" /\ lastSeen' = c.time /\ emitted' = Append(emitted, c)
        /\ stream' \in {stream, Reconnected} /\ UNCHANGED reachable
    BY <1>2 DEF Receive
  <2>2. c.time \in 0..MaxOpenTime /\ lastSeen < c.time
    BY <1>2, StreamConstants DEF Duplicate, Candles, StreamTypeOK
  <2>3. StreamTypeOK' /\ (stream'.pc # "stopped" => stream'.failures <= MaxReconnects)
    BY <2>1, <2>2, ReconnectedType DEF StreamTypeOK
  <2>4. /\ DOMAIN emitted' = 1..(Len(emitted) + 1) /\ DOMAIN emitted = 1..Len(emitted)
        /\ Len(emitted) \in Nat
        /\ \A i \in DOMAIN emitted : emitted'[i] = emitted[i]
        /\ emitted'[Len(emitted) + 1] = c
    BY <2>1 DEF StreamTypeOK
  <2>5. \A i \in DOMAIN emitted : emitted[i].time \in Int /\ emitted[i].time < c.time
    <3>1. TAKE i \in DOMAIN emitted
    <3>2. emitted[i] \in Candles /\ emitted[i].time <= lastSeen
      BY DEF StreamTypeOK
    <3>3. emitted[i].time \in 0..MaxOpenTime /\ lastSeen \in -1..MaxOpenTime
      BY <3>2 DEF Candles, StreamTypeOK
    <3> QED
      BY <2>2, <3>2, <3>3, StreamConstants
  <2>6. \A i \in DOMAIN emitted' : emitted'[i].time <= lastSeen'
    BY <2>1, <2>2, <2>4, <2>5
  <2>7. CandlesInOrder'
    BY <2>4, <2>5 DEF CandlesInOrder
  <2> QED
    BY <2>3, <2>6, <2>7
<1> QED
  BY <1>1, <1>2

\* Every step keeps the invariant.
LEMMA StreamStep ==
  ASSUME StreamInv, [StreamNext]_streamVars
  PROVE  StreamInv'
<1>1. ASSUME Connect \/ Disconnect \/ RequestStop \/ NetworkTurns \/ UNCHANGED streamVars
      PROVE  StreamInv'
  <2>1. UNCHANGED <<lastSeen, emitted>>
    BY <1>1 DEF Connect, Disconnect, RequestStop, NetworkTurns, streamVars
  <2>2. reachable' \in BOOLEAN
    BY <1>1 DEF Connect, Disconnect, RequestStop, NetworkTurns, streamVars, StreamInv, StreamTypeOK
  <2>3. /\ stream' \in [pc : {"connecting", "receiving", "stopped"},
                        failures : 0..(MaxReconnects + 1), stop : BOOLEAN]
        /\ stream'.pc # "stopped" => stream'.failures <= MaxReconnects
    <3>1. CASE Connect \/ Disconnect
      <4>1. \/ stream' = [stream EXCEPT !.pc = "stopped"]
            \/ stream' = [stream EXCEPT !.pc = "receiving", !.failures = 0]
            \/ stream.pc # "stopped" /\ stream' = Reconnected
        BY <3>1 DEF Connect, Disconnect
      <4>2. CASE stream' = [stream EXCEPT !.pc = "stopped"]
        BY <4>2 DEF StreamInv, StreamTypeOK
      <4>3. CASE stream' = [stream EXCEPT !.pc = "receiving", !.failures = 0]
        <5>1. 0 \in 0..(MaxReconnects + 1) /\ 0 <= MaxReconnects
          BY StreamConstants
        <5> QED
          BY <4>3, <5>1 DEF StreamInv, StreamTypeOK
      <4>4. CASE stream.pc # "stopped" /\ stream' = Reconnected
        BY <4>4, ReconnectedType
      <4> QED
        BY <4>1, <4>2, <4>3, <4>4
    <3>2. CASE RequestStop \/ NetworkTurns \/ UNCHANGED streamVars
      BY <3>2 DEF RequestStop, NetworkTurns, streamVars, StreamInv, StreamTypeOK
    <3> QED
      BY <1>1, <3>1, <3>2
  <2> QED
    BY <2>1, <2>2, <2>3 DEF StreamInv, StreamTypeOK, CandlesInOrder
<1> QED
  BY <1>1, ReceiveStep DEF StreamNext

\* The stream starts without candles.
LEMMA StreamStart == StreamInit => StreamInv
BY StreamConstants DEF StreamInit, StreamInv, StreamTypeOK, CandlesInOrder, Candles

\* The stream keeps its types and its order.
THEOREM StreamInvariant == StreamSpec => []StreamInv
<1> QED
  BY StreamStart, StreamStep, PTL DEF StreamSpec

\* Whatever the exchange sends again after whichever reconnections, no candle is
\* handed out twice and candles come in the order of their open times
\* (kline_stream.py's check against the last open time).
THEOREM StreamInOrder == StreamSpec => []CandlesInOrder
<1> QED
  BY StreamInvariant, PTL DEF StreamInv

-----------------------------------------------------------------------------
(* The bot.                                                                *)

\* The bot keeps an update id only with the message's answer, and Telegram confirms
\* only ids that the bot kept.
Kept ==
  /\ bot.pc = "handling" => bot.last < bot.batchEnd
  /\ 1..bot.last \subseteq answered
  /\ ConfirmedIsAnswered

\* While nothing timed out and nothing died, the API holds the bot's current command
\* at most, and has executed earlier ones alone.
InStep ==
  (~late /\ botCrashes = 0) =>
    /\ requests \subseteq {<<bot.last, 0>>}
    /\ requests # {} => bot.pc = "waiting"
    /\ \A i \in DOMAIN executed : executed[i] <= bot.last
    /\ requests # {} => \A i \in DOMAIN executed : executed[i] < bot.last

BotInv == BotTypeOK /\ Kept /\ InStep /\ RunInOrder

-----------------------------------------------------------------------------
(* The steps.                                                              *)

\* Executed commands are numbers of messages.
LEMMA ExecutedAreMessages ==
  ASSUME BotTypeOK, NEW i \in DOMAIN executed
  PROVE  executed[i] \in 1..MaxMessages
<1>1. executed[i] \in Messages
  BY DEF BotTypeOK
<1> QED
  BY <1>1 DEF Messages

\* What a poll's offset confirms was answered.
LEMMA ConfirmedByKept ==
  ASSUME BotInv
  PROVE  /\ ConfirmedBy(Offset) \in 0..written
         /\ 1..ConfirmedBy(Offset) \subseteq answered
BY DEF ConfirmedBy, Offset, MaxOf, BotInv, BotTypeOK, Kept, ConfirmedIsAnswered

\* A new message is the operator's.
LEMMA WriteStep ==
  ASSUME BotInv, Write
  PROVE  BotInv'
<1>1. written' \in 0..MaxMessages /\ written' = written + 1 /\ written \in 0..MaxMessages
  BY BotConstants DEF Write, BotInv, BotTypeOK
<1>2. UNCHANGED <<confirmed, bot, requests, executed, answered, late, botCrashes>>
  BY DEF Write
<1>3. BotTypeOK'
  BY <1>1, <1>2 DEF BotInv, BotTypeOK, Messages
<1> QED
  BY <1>2, <1>3 DEF BotInv, Kept, ConfirmedIsAnswered, InStep, RunInOrder

\* A poll leaves the operator's and the API's state alone.
LEMMA PollStep ==
  ASSUME BotInv, PollAnswered \/ PollLost
  PROVE  BotInv'
<1>1. UNCHANGED <<written, requests, executed, answered, late, botCrashes>>
  BY DEF PollAnswered, PollLost
<1>2. confirmed' \in 0..written /\ 1..confirmed' \subseteq answered
  BY ConfirmedByKept DEF PollAnswered, PollLost, BotInv, BotTypeOK, Kept, ConfirmedIsAnswered
<1>3. CASE PollAnswered
  <2>1. /\ bot.pc = "polling" /\ confirmed' < written
        /\ bot' = [pc |-> "handling", last |-> confirmed', batchEnd |-> written]
    BY <1>2, <1>3 DEF PollAnswered, BotInv, BotTypeOK
  <2>2. BotTypeOK'
    BY <1>1, <1>2, <2>1 DEF BotInv, BotTypeOK, Messages
  <2>3. Kept'
    BY <1>1, <1>2, <2>1 DEF Kept, ConfirmedIsAnswered
  <2>4. InStep'
    <3>1. SUFFICES ASSUME ~late, botCrashes = 0
                   PROVE  requests = {} /\ \A i \in DOMAIN executed : executed[i] <= confirmed'
      BY <1>1, <2>1 DEF InStep
    <3>2. requests = {} /\ \A i \in DOMAIN executed : executed[i] <= bot.last
      BY <2>1, <3>1 DEF BotInv, InStep
    <3>3. bot.last <= confirmed' \/ bot.last = 0
      BY <1>3 DEF PollAnswered, ConfirmedBy, Offset, MaxOf, BotInv, BotTypeOK
    <3>5. bot.last \in Nat /\ confirmed' \in Nat
      BY <1>2 DEF BotInv, BotTypeOK
    <3>6. ASSUME NEW i \in DOMAIN executed
          PROVE  executed[i] <= confirmed'
      <4>1. executed[i] \in 1..MaxMessages /\ executed[i] <= bot.last
        BY <3>2, ExecutedAreMessages DEF BotInv
      <4> QED
        BY <3>3, <3>5, <4>1, BotConstants
    <3> QED
      BY <3>2, <3>6
  <2> QED
    BY <1>1, <2>2, <2>3, <2>4 DEF BotInv, RunInOrder
<1>4. CASE PollLost
  <2>1. bot' = bot
    BY <1>4 DEF PollLost
  <2> QED
    BY <1>1, <1>2, <2>1 DEF BotInv, BotTypeOK, Messages, Kept, ConfirmedIsAnswered, InStep, RunInOrder
<1> QED
  BY <1>3, <1>4

\* The update id and the answer go together.
LEMMA HandleStep ==
  ASSUME BotInv, Handle
  PROVE  BotInv'
<1> DEFINE m == bot.last + 1
<1>1. /\ bot.pc = "handling" /\ answered' = answered \cup {m}
      /\ UNCHANGED <<written, confirmed, executed, late, botCrashes>>
      /\ requests' \subseteq requests \cup {<<m, botCrashes>>}
      /\ \/ bot' = [bot EXCEPT !.last = m, !.pc = "replying"] /\ requests' = requests
         \/ bot' = [bot EXCEPT !.last = m, !.pc = "waiting"]
  BY DEF Handle
<1>2. m \in 1..written /\ m \in 0..written /\ bot.last \in 0..written
  BY <1>1 DEF BotInv, BotTypeOK, Kept
<1>3. /\ bot' \in [pc : {"polling", "handling", "waiting", "replying"}, last : 0..written,
                   batchEnd : 0..written]
      /\ bot'.last = m /\ bot'.pc # "handling"
  <2>1. bot \in [pc : {"polling", "handling", "waiting", "replying"}, last : 0..written,
                 batchEnd : 0..written]
    BY DEF BotInv, BotTypeOK
  <2> HIDE DEF m
  <2>2. CASE bot' = [bot EXCEPT !.last = m, !.pc = "replying"]
    BY <1>2, <2>2, <2>1
  <2>3. CASE bot' = [bot EXCEPT !.last = m, !.pc = "waiting"]
    BY <1>2, <2>3, <2>1
  <2> QED
    BY <1>1, <2>2, <2>3
<1>4. BotTypeOK'
  <2>1. written \in 0..MaxMessages /\ botCrashes \in 0..MaxBotCrashes /\ answered \subseteq 1..written
    BY DEF BotInv, BotTypeOK
  <2>2. m \in Messages
    BY <1>2, <2>1, BotConstants DEF Messages
  <2>3. requests' \subseteq Messages \X (0..MaxBotCrashes)
    BY <1>1, <2>1, <2>2 DEF BotInv, BotTypeOK
  <2>4. answered' \subseteq 1..written
    BY <1>1, <1>2, <2>1
  <2> QED
    BY <1>1, <1>3, <2>1, <2>3, <2>4 DEF BotInv, BotTypeOK, Messages
<1>5. Kept'
  BY <1>1, <1>2, <1>3 DEF BotInv, Kept, ConfirmedIsAnswered
<1>6. InStep'
  <2>1. SUFFICES ASSUME ~late, botCrashes = 0
                 PROVE  /\ requests' \subseteq {<<m, 0>>}
                        /\ requests' # {} => bot'.pc = "waiting"
                        /\ \A i \in DOMAIN executed : executed[i] < m
    <3>1. \A i \in DOMAIN executed : executed[i] < m => executed[i] <= m
      BY <1>2, ExecutedAreMessages, BotConstants DEF BotInv
    <3> QED
      BY <1>1, <1>3, <3>1 DEF InStep
  <2>2. requests = {} /\ \A i \in DOMAIN executed : executed[i] <= bot.last
    BY <1>1, <2>1 DEF BotInv, InStep
  <2>3. ASSUME NEW i \in DOMAIN executed
        PROVE  executed[i] < m
    <3>1. executed[i] \in 1..MaxMessages
      BY ExecutedAreMessages DEF BotInv
    <3> QED
      BY <1>2, <2>2, <3>1, BotConstants
  <2>4. requests' # {} => bot'.pc = "waiting"
    BY <1>1, <2>2 DEF BotInv, BotTypeOK
  <2> QED
    BY <1>1, <2>1, <2>2, <2>3, <2>4
<1> QED
  BY <1>1, <1>4, <1>5, <1>6 DEF BotInv, RunInOrder

\* The API runs a request it holds.
LEMMA ExecuteStep ==
  ASSUME BotInv, NEW r \in requests, Execute(r)
  PROVE  BotInv'
<1>1. /\ requests' = requests \ {r} /\ executed' = Append(executed, r[1])
      /\ UNCHANGED <<written, confirmed, bot, answered, late, botCrashes>>
  BY DEF Execute
<1>2. r[1] \in Messages
  BY DEF BotInv, BotTypeOK
<1>3. /\ executed' \in Seq(Messages) /\ Len(executed) \in Nat
      /\ DOMAIN executed = 1..Len(executed) /\ DOMAIN executed' = 1..(Len(executed) + 1)
      /\ \A i \in DOMAIN executed : executed'[i] = executed[i] /\ executed[i] \in Messages
      /\ executed'[Len(executed) + 1] = r[1]
  BY <1>1, <1>2 DEF BotInv, BotTypeOK
<1>4. BotTypeOK' /\ Kept'
  BY <1>1, <1>3 DEF BotInv, BotTypeOK, Kept, ConfirmedIsAnswered
<1>5. ASSUME ~late, botCrashes = 0
      PROVE  r = <<bot.last, 0>> /\ \A i \in DOMAIN executed : executed[i] < bot.last
  BY <1>5 DEF BotInv, InStep
<1>6. InStep'
  <2>1. SUFFICES ASSUME ~late, botCrashes = 0
                 PROVE  requests' = {} /\ \A i \in DOMAIN executed' : executed'[i] <= bot.last
    BY <1>1 DEF InStep
  <2>2. requests \subseteq {<<bot.last, 0>>}
    BY <2>1 DEF BotInv, InStep
  <2> QED
    BY <1>1, <1>3, <1>5, <2>1, <2>2 DEF BotInv, BotTypeOK, Messages
<1>7. RunInOrder'
  <2>1. SUFFICES ASSUME ~late, botCrashes = 0, NEW i \in DOMAIN executed', NEW j \in DOMAIN executed',
                        i < j
                 PROVE  executed'[i] < executed'[j]
    BY <1>1 DEF RunInOrder
  <2>2. CASE j \in DOMAIN executed
    BY <1>3, <2>1, <2>2 DEF BotInv, RunInOrder
  <2>3. CASE j = Len(executed) + 1
    BY <1>3, <1>5, <2>1, <2>3
  <2> QED
    BY <1>3, <2>1, <2>2, <2>3
<1> QED
  BY <1>4, <1>6, <1>7 DEF BotInv

\* After an answer or a timeout the bot replies.
LEMMA AnswerStep ==
  ASSUME BotInv, Answer \/ TimeOut
  PROVE  BotInv'
<1>1. /\ bot.pc = "waiting" /\ bot' = [bot EXCEPT !.pc = "replying"]
      /\ UNCHANGED <<written, confirmed, requests, executed, answered, botCrashes>>
  BY DEF Answer, TimeOut
<1>2. /\ bot'.last = bot.last /\ bot'.pc = "replying"
      /\ bot' \in [pc : {"polling", "handling", "waiting", "replying"}, last : 0..written,
                   batchEnd : 0..written]
  BY <1>1 DEF BotInv, BotTypeOK
<1>3. late' \in BOOLEAN /\ (~late' => ~late /\ <<bot.last, botCrashes>> \notin requests)
  BY DEF Answer, TimeOut, Done, BotInv, BotTypeOK
<1>4. BotTypeOK' /\ Kept'
  BY <1>1, <1>2, <1>3 DEF BotInv, BotTypeOK, Messages, Kept, ConfirmedIsAnswered
<1>5. InStep' /\ RunInOrder'
  BY <1>1, <1>2, <1>3 DEF BotInv, InStep, RunInOrder
<1> QED
  BY <1>4, <1>5 DEF BotInv

\* After the reply comes the next message of the batch or the next poll.
LEMMA ReplyStep ==
  ASSUME BotInv, Reply
  PROVE  BotInv'
<1>1. /\ bot.pc = "replying" /\ bot' = [bot EXCEPT !.pc = NextMessage]
      /\ UNCHANGED <<written, confirmed, requests, executed, answered, late, botCrashes>>
  BY DEF Reply
<1>2. /\ bot'.last = bot.last /\ bot'.batchEnd = bot.batchEnd
      /\ bot'.pc = "handling" => bot.last < bot.batchEnd
      /\ bot' \in [pc : {"polling", "handling", "waiting", "replying"}, last : 0..written,
                   batchEnd : 0..written]
  BY <1>1 DEF NextMessage, BotInv, BotTypeOK
<1>3. BotTypeOK' /\ Kept'
  BY <1>1, <1>2 DEF BotInv, BotTypeOK, Messages, Kept, ConfirmedIsAnswered
<1>4. InStep' /\ RunInOrder'
  BY <1>1, <1>2 DEF BotInv, InStep, RunInOrder
<1> QED
  BY <1>3, <1>4 DEF BotInv

\* A crash forgets the position, not what Telegram confirmed.
LEMMA BotCrashStep ==
  ASSUME BotInv, BotCrash
  PROVE  BotInv'
<1>1. /\ botCrashes' = botCrashes + 1 /\ botCrashes' \in 1..MaxBotCrashes
      /\ bot' = Fresh /\ requests' \in {requests, {}}
      /\ UNCHANGED <<written, confirmed, executed, answered, late>>
  BY BotConstants DEF BotCrash, BotInv, BotTypeOK
<1>2. BotTypeOK'
  BY <1>1 DEF BotInv, BotTypeOK, Messages, Fresh
<1>3. Kept'
  BY <1>1 DEF BotInv, Kept, ConfirmedIsAnswered, Fresh
<1>4. InStep' /\ RunInOrder'
  BY <1>1 DEF InStep, RunInOrder
<1> QED
  BY <1>2, <1>3, <1>4 DEF BotInv

\* Every step keeps the invariant.
LEMMA BotStepKeeps ==
  ASSUME BotInv, [BotNext]_botVars
  PROVE  BotInv'
<1>1. CASE UNCHANGED botVars
  BY <1>1 DEF botVars, BotInv, BotTypeOK, Messages, Kept, ConfirmedIsAnswered, InStep, RunInOrder
<1> QED
  BY <1>1, WriteStep, PollStep, HandleStep, ExecuteStep, AnswerStep, ReplyStep, BotCrashStep
  DEF BotNext, BotStep

\* The bot starts without messages.
LEMMA BotStart == BotInit => BotInv
<1>1. SUFFICES ASSUME BotInit
               PROVE  BotInv
  OBVIOUS
<1>2. BotTypeOK
  <2>1. /\ 0 \in 0..MaxMessages /\ 0 \in 0..MaxBotCrashes /\ 0 \in 0..written
        /\ <<>> \in Seq(Messages)
    BY <1>1, BotConstants DEF BotInit
  <2> QED
    BY <1>1, <2>1 DEF BotInit, BotTypeOK, Fresh
<1>3. Kept
  BY <1>1 DEF BotInit, Fresh, Kept, ConfirmedIsAnswered
<1>4. InStep /\ RunInOrder
  BY <1>1 DEF BotInit, InStep, RunInOrder
<1> QED
  BY <1>2, <1>3, <1>4 DEF BotInv

\* The bot's types, and what ties its position to the answers it gave.
THEOREM BotInvariant == BotSpec => []BotInv
<1> QED
  BY BotStart, BotStepKeeps, PTL DEF BotSpec

\* No command vanishes unseen: Telegram forgets a message only after the bot routed
\* or refused it (bot.py's offset), wherever answers are lost and the process dies.
THEOREM NoMessageVanishes == BotSpec => []ConfirmedIsAnswered
<1> QED
  BY BotInvariant, PTL DEF BotInv, Kept

\* Without a timeout and without a crash commands run in the order in which the
\* operator sent them, each once.
THEOREM CommandsRunInOrder == BotSpec => []RunInOrder
<1> QED
  BY BotInvariant, PTL DEF BotInv

-----------------------------------------------------------------------------
(* How often a command runs.                                               *)

\* The runs of a command, and the requests for it that the API still holds.
Runs(m) == {i \in DOMAIN executed : executed[i] = m}
Held(m) == {p \in 0..MaxBotCrashes : <<m, p>> \in requests}

\* A command that the bot has not reached in this process was posted by earlier ones
\* alone.
OnceInv ==
  \A m \in Messages :
    /\ Cardinality(Runs(m)) + Cardinality(Held(m)) <= 1 + botCrashes
    /\ m > bot.last => Cardinality(Runs(m)) + Cardinality(Held(m)) <= botCrashes

\* Runs and requests can be counted.
LEMMA RunCounts ==
  ASSUME BotTypeOK, NEW m
  PROVE  /\ IsFiniteSet(Runs(m)) /\ IsFiniteSet(Held(m))
         /\ Cardinality(Runs(m)) \in Nat /\ Cardinality(Held(m)) \in Nat
<1>1. IsFiniteSet(DOMAIN executed)
  <2>1. DOMAIN executed = 1..Len(executed) /\ Len(executed) \in Nat
    BY DEF BotTypeOK
  <2> QED
    BY <2>1, FS_Interval
<1>2. IsFiniteSet(0..MaxBotCrashes)
  BY BotConstants, FS_Interval
<1>3. IsFiniteSet(Runs(m)) /\ IsFiniteSet(Held(m))
  BY <1>1, <1>2, FS_Subset DEF Runs, Held
<1> QED
  BY <1>3, FS_CardinalityType

\* A request moves from those held to those run.
LEMMA ExecuteOnceMore ==
  ASSUME BotTypeOK, OnceInv, NEW r \in requests, Execute(r)
  PROVE  OnceInv'
<1>1. /\ requests' = requests \ {r} /\ executed' = Append(executed, r[1])
      /\ UNCHANGED <<bot, botCrashes>>
  BY DEF Execute
<1>2. r = <<r[1], r[2]>> /\ r[1] \in Messages /\ r[2] \in 0..MaxBotCrashes
  BY DEF BotTypeOK
<1>3. /\ Len(executed) \in Nat /\ DOMAIN executed = 1..Len(executed)
      /\ DOMAIN executed' = 1..(Len(executed) + 1)
      /\ \A i \in DOMAIN executed : executed'[i] = executed[i]
      /\ executed'[Len(executed) + 1] = r[1]
  BY <1>1, <1>2 DEF BotTypeOK
<1>4. ASSUME NEW m \in Messages
      PROVE  Cardinality(Runs(m)') + Cardinality(Held(m)') = Cardinality(Runs(m)) + Cardinality(Held(m))
  <2>1. CASE m # r[1]
    <3>1. Runs(m)' = Runs(m)
      BY <1>3, <2>1 DEF Runs
    <3>2. Held(m)' = Held(m)
      BY <1>1, <1>2, <2>1 DEF Held
    <3> QED
      BY <3>1, <3>2
  <2>2. CASE m = r[1]
    <3>1. Runs(m)' = Runs(m) \cup {Len(executed) + 1} /\ Len(executed) + 1 \notin Runs(m)
      BY <1>3, <2>2 DEF Runs
    <3>2. Held(m)' = Held(m) \ {r[2]} /\ r[2] \in Held(m)
      <4>1. ASSUME NEW p \in 0..MaxBotCrashes
            PROVE  <<m, p>> \in requests' <=> <<m, p>> \in requests /\ p # r[2]
        BY <1>1, <1>2, <2>2
      <4> QED
        BY <1>2, <2>2, <4>1 DEF Held
    <3>3. Cardinality(Runs(m)') = Cardinality(Runs(m)) + 1
      BY <3>1, RunCounts, FS_AddElement
    <3>4. Cardinality(Held(m)') = Cardinality(Held(m)) - 1
      <4> DEFINE T == Held(m)
                 p == r[2]
      <4>1. IsFiniteSet(T) /\ p \in T /\ Held(m)' = T \ {p}
        BY <3>2, RunCounts
      <4> HIDE DEF T, p
      <4>2. Cardinality(T \ {p}) = Cardinality(T) - 1
        BY <4>1, FS_RemoveElement
      <4> QED
        BY <4>1, <4>2 DEF T
    <3> QED
      BY <3>3, <3>4, RunCounts
  <2> QED
    BY <2>1, <2>2
<1> QED
  BY <1>1, <1>4 DEF OnceInv, Messages

\* The bot posts the next message once.
LEMMA HandleOnceMore ==
  ASSUME BotTypeOK, OnceInv, Handle
  PROVE  OnceInv'
<1> DEFINE n == bot.last + 1
<1>1. /\ bot'.last = n /\ UNCHANGED <<executed, botCrashes>>
      /\ requests' = requests \/ requests' = requests \cup {<<n, botCrashes>>}
  BY DEF Handle, BotTypeOK
<1>2. bot.last \in Nat /\ botCrashes \in Nat
  BY BotConstants DEF BotTypeOK
<1>3. ASSUME NEW m \in Messages
      PROVE  /\ Cardinality(Runs(m)') + Cardinality(Held(m)') <= 1 + botCrashes
             /\ m > n => Cardinality(Runs(m)') + Cardinality(Held(m)') <= botCrashes
  <2>1. Runs(m)' = Runs(m)
    BY <1>1 DEF Runs
  <2>2. m \in Nat /\ Cardinality(Runs(m)) \in Nat /\ Cardinality(Held(m)) \in Nat
    BY RunCounts DEF Messages
  <2>3. CASE Held(m)' = Held(m)
    <3>1. m > n => m > bot.last
      BY <1>2, <2>2
    <3> HIDE DEF n
    <3> QED
      BY <2>1, <2>3, <3>1 DEF OnceInv
  <2>4. CASE Held(m)' # Held(m)
    <3>1. m = n /\ Held(m)' = Held(m) \cup {botCrashes}
      BY <1>1, <2>4 DEF Held
    <3>2. Cardinality(Held(m)') <= Cardinality(Held(m)) + 1 /\ Cardinality(Held(m)') \in Nat
      <4>1. botCrashes \notin Held(m)
        BY <2>4, <3>1
      <4> QED
        BY <2>2, <3>1, <4>1, RunCounts, FS_AddElement
    <3>3. m > bot.last
      BY <1>2, <3>1
    <3>4. Cardinality(Runs(m)) + Cardinality(Held(m)) <= botCrashes
      BY <3>3 DEF OnceInv
    <3>5. ~(m > n)
      BY <2>2, <3>1
    <3> HIDE DEF n
    <3> QED
      BY <1>2, <2>1, <2>2, <3>2, <3>4, <3>5
  <2> QED
    BY <2>3, <2>4
<1> QED
  BY <1>1, <1>3 DEF OnceInv, Messages

\* The other steps run and post nothing; a crash allows one more run.
LEMMA OnceStep ==
  ASSUME BotTypeOK, OnceInv, [BotNext]_botVars
  PROVE  OnceInv'
<1>1. bot.last \in Nat /\ botCrashes \in Nat /\ confirmed \in Nat
  BY BotConstants DEF BotTypeOK
<1>2. CASE /\ UNCHANGED <<requests, executed, botCrashes>>
           /\ bot' = bot \/ (bot'.last \in Nat /\ bot.last <= bot'.last)
  <2>1. \A m \in Messages : Runs(m)' = Runs(m) /\ Held(m)' = Held(m)
    BY <1>2 DEF Runs, Held
  <2>2. \A m \in Messages : m > bot'.last => m > bot.last
    BY <1>1, <1>2, BotConstants DEF Messages
  <2> QED
    BY <1>2, <2>1, <2>2 DEF OnceInv, Messages
<1>3. CASE PollAnswered
  <2>1. /\ bot'.last = ConfirmedBy(Offset)
        /\ UNCHANGED <<requests, executed, botCrashes>>
    BY <1>3 DEF PollAnswered
  <2>2. bot'.last \in Nat /\ bot.last <= bot'.last
    BY <1>1, <2>1 DEF ConfirmedBy, Offset, MaxOf
  <2> QED
    BY <1>2, <2>1, <2>2
<1>4. CASE BotCrash
  <2>1. /\ botCrashes' = botCrashes + 1 /\ bot'.last = 0 /\ executed' = executed
        /\ requests' \subseteq requests
    BY <1>4 DEF BotCrash, Fresh
  <2>2. ASSUME NEW m \in Messages
        PROVE  /\ Cardinality(Runs(m)') + Cardinality(Held(m)') <= 1 + botCrashes
    <3>1. Runs(m)' = Runs(m) /\ Held(m)' \in SUBSET Held(m)
      BY <2>1 DEF Runs, Held
    <3>2. Cardinality(Held(m)') <= Cardinality(Held(m)) /\ Cardinality(Held(m)') \in Nat
      BY <3>1, RunCounts, FS_Subset, FS_CardinalityType
    <3>3. Cardinality(Runs(m)) + Cardinality(Held(m)) <= 1 + botCrashes
      BY DEF OnceInv
    <3> QED
      BY <1>1, <3>1, <3>2, <3>3, RunCounts
  <2>3. \A m \in Messages : Cardinality(Runs(m)') \in Nat /\ Cardinality(Held(m)') \in Nat
    <3>1. \A m \in Messages : Runs(m)' = Runs(m) /\ Held(m)' \in SUBSET Held(m)
      BY <2>1 DEF Runs, Held
    <3> QED
      BY <3>1, RunCounts, FS_Subset, FS_CardinalityType
  <2>4. \A x \in Nat : x <= 1 + botCrashes => x <= 1 + (botCrashes + 1) /\ x <= botCrashes + 1
    BY <1>1
  <2>5. ASSUME NEW m \in Messages
        PROVE  /\ Cardinality(Runs(m)') + Cardinality(Held(m)') <= 1 + botCrashes'
               /\ Cardinality(Runs(m)') + Cardinality(Held(m)') <= botCrashes'
    BY <2>1, <2>2, <2>3, <2>4
  <2> QED
    BY <2>5 DEF OnceInv, Messages
<1>5. CASE Answer \/ TimeOut \/ Reply \/ PollLost \/ Write \/ UNCHANGED botVars
  <2>1. UNCHANGED <<requests, executed, botCrashes>>
        /\ \/ bot' = bot
           \/ \E pc \in {"replying", NextMessage} : bot' = [bot EXCEPT !.pc = pc]
    BY <1>5 DEF Answer, TimeOut, Reply, PollLost, Write, botVars
  <2>2. bot' = bot \/ bot'.last = bot.last
    BY <2>1 DEF BotTypeOK
  <2> QED
    BY <1>1, <1>2, <2>1, <2>2
<1> QED
  BY <1>3, <1>4, <1>5, ExecuteOnceMore, HandleOnceMore DEF BotNext, BotStep

\* No command ran.
LEMMA OnceStart == BotInit => OnceInv
<1>1. SUFFICES ASSUME BotInit, NEW m \in Messages
               PROVE  Cardinality(Runs(m)) + Cardinality(Held(m)) = 0 /\ botCrashes = 0
  BY DEF OnceInv
<1>2. Runs(m) = {} /\ Held(m) = {} /\ botCrashes = 0
  BY <1>1 DEF BotInit, Runs, Held
<1> QED
  BY <1>2, FS_EmptySet

\* So runs are bounded.
LEMMA OnceBounds == BotInv /\ OnceInv => RunsOncePerProcess
<1> SUFFICES ASSUME BotInv, OnceInv
             PROVE  RunsOncePerProcess
  OBVIOUS
<1>1. ASSUME NEW m \in Messages
      PROVE  Cardinality(Runs(m)) <= 1 + botCrashes
  <2>1. Cardinality(Runs(m)) \in Nat /\ Cardinality(Held(m)) \in Nat
    BY RunCounts DEF BotInv
  <2>2. Cardinality(Runs(m)) + Cardinality(Held(m)) <= 1 + botCrashes /\ botCrashes \in Nat
    BY BotConstants DEF OnceInv, BotInv, BotTypeOK
  <2> QED
    BY <2>1, <2>2
<1> QED
  BY <1>1, Zenon DEF RunsOncePerProcess, Runs

\* A command runs at most once, and once more for each death of the bot's process:
\* neither timeouts, nor late answers, nor lost polls and confirmations repeat it
\* (bot.py keeps the update id before it posts the command).
THEOREM CommandsRunOncePerProcess == BotSpec => []RunsOncePerProcess
<1>1. BotInv /\ OnceInv /\ [BotNext]_botVars => OnceInv'
  BY OnceStep DEF BotInv
<1> QED
  BY OnceStart, OnceBounds, <1>1, BotInvariant, PTL DEF BotSpec
===============================================================================
