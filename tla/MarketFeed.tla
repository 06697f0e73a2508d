------------------------------ MODULE MarketFeed ------------------------------
(***************************************************************************)
(* Market data over HTTP: the threads of the process share one transport   *)
(* with a weight limiter and bounded retries; the scan thread asks for     *)
(* every symbol of the universe and records the health of what it got.     *)
(* The exchange counts the weight of every attempt that reaches it, and    *)
(* may answer anything.                                                    *)
(***************************************************************************)
EXTENDS Integers, FiniteSets, Functions

CONSTANTS Callers,      \* threads that send requests, one at a time each
          Scanner,      \* the one that scans the universe
          Charge,       \* Charge[c]: estimated weight of a request of caller c
          MaxWeight,    \* max_weight_per_minute
          MaxRetries,   \* max_retries
          UniverseSize,
          MaxDataFailures \* max_consecutive_data_failures

ASSUME FeedConstants ==
  /\ IsFiniteSet(Callers) /\ Scanner \in Callers
  /\ MaxWeight \in Nat \ {0} /\ Charge \in [Callers -> 1..MaxWeight]
  /\ MaxRetries \in Nat /\ UniverseSize \in Nat \ {0} /\ MaxDataFailures \in Nat \ {0}

VARIABLES limiter,  \* whether its bucket is the current minute, and its two counts
          call,     \* the request of each caller
          spent,    \* weight the exchange counted in the current minute
          scanned,  \* symbols the scan still asks for, usable ones so far
          health    \* consecutive data failures; universe and usable symbols of the last scan

feedVars == <<limiter, call, spent, scanned, health>>

NoCall == [pc |-> "idle", attempt |-> 0, reported |-> 0]

FeedInit ==
  /\ limiter = [current |-> TRUE, client |-> 0, server |-> 0]
  /\ call = [c \in Callers |-> NoCall]
  /\ spent = 0
  /\ scanned = [left |-> 0, usable |-> 0]
  /\ health = [failures |-> 0, total |-> 0, usable |-> 0]

Larger(a, b) == IF a > b THEN a ELSE b

\* Mutant of Rolled: every look at the limiter starts a new bucket.
RolledAlways == [current |-> TRUE, client |-> 0, server |-> 0]

\* _roll_bucket: the counts start anew with the minute.
Rolled == IF limiter.current THEN limiter ELSE [current |-> TRUE, client |-> 0, server |-> 0]

-----------------------------------------------------------------------------
(* The scan.                                                               *)

\* The kill switch ends a scan before its first symbol, and then nothing counts
\* as failed.
ScanBegins ==
  /\ scanned.left = 0 /\ call[Scanner].pc = "idle"
  /\ \/ scanned' = [left |-> UniverseSize, usable |-> 0] /\ UNCHANGED health
     \/ /\ health' = [failures |-> 0, total |-> 0, usable |-> 0]
        /\ UNCHANGED scanned
  /\ UNCHANGED <<limiter, call, spent>>

\* Mutant of DataFailed: a scan fails only when every other symbol was usable.
DataFailedPartly(usable) == usable \in 1..(UniverseSize - 1)

\* A symbol that was skipped, raised or failed the quality gate fails the scan.
DataFailed(usable) == usable < UniverseSize

\* record_scan, after the last symbol.  From MaxDataFailures on the count is only
\* compared.
Recorded(usable) ==
  [total |-> UniverseSize, usable |-> usable,
   failures |-> IF ~DataFailed(usable) THEN 0
                ELSE IF health.failures < MaxDataFailures THEN health.failures + 1
                ELSE health.failures]

DataHealth ==
  CASE health.failures >= MaxDataFailures -> "UNHEALTHY"
    [] health.failures \in 1..(MaxDataFailures - 1) ->
         IF health.total > 0 /\ health.usable = 0 THEN "NO_DATA" ELSE "DEGRADED"
    [] OTHER -> "HEALTHY"

-----------------------------------------------------------------------------
(* One request.                                                            *)

\* acquire, for the next symbol of the scan or whenever another caller likes: the
\* caller sleeps while the budget of the minute lacks the weight.
Acquire(c) ==
  /\ call[c].pc = "idle" /\ (c = Scanner => scanned.left > 0)
  /\ Larger(Rolled.client, Rolled.server) + Charge[c] <= MaxWeight
  /\ limiter' = [Rolled EXCEPT !.client = @ + Charge[c]]
  /\ call' = [call EXCEPT ![c].pc = "sending"]
  /\ UNCHANGED <<spent, scanned, health>>

\* An attempt reaches the exchange, whose answer names the weight used so far, or
\* is lost on the way there.
Send(c) ==
  /\ call[c].pc = "sending"
  /\ \/ /\ spent' = spent + Charge[c]
        /\ call' = [call EXCEPT ![c].pc = "waiting", ![c].reported = spent']
     \/ /\ call' = [call EXCEPT ![c].pc = "waiting", ![c].reported = 0]
        /\ UNCHANGED spent
  /\ UNCHANGED <<limiter, scanned, health>>

\* update_server_weight with the answer's header, which may be of the minute before.
Reported(c) == limiter' = [Rolled EXCEPT !.server = Larger(@, call[c].reported)]

\* An error with the header, or without it, or no answer at all.
ErrorReported(c) == (call[c].reported > 0 /\ Reported(c)) \/ UNCHANGED limiter

\* The caller has its answer; the scan counts it, and ends with the last one.
Returned(c, usable) ==
  /\ call' = [call EXCEPT ![c] = NoCall]
  /\ IF c # Scanner THEN UNCHANGED <<scanned, health>>
     ELSE LET got == scanned.usable + IF usable THEN 1 ELSE 0 IN
          /\ scanned' = [left |-> scanned.left - 1, usable |-> IF scanned.left = 1 THEN 0 ELSE got]
          /\ health' = IF scanned.left = 1 THEN Recorded(got) ELSE health

\* The candles came; whether they are usable is for the parser and the quality gate.
Succeed(c) ==
  /\ call[c].pc = "waiting" /\ call[c].reported > 0
  /\ Reported(c)
  /\ \E usable \in BOOLEAN : Returned(c, usable)
  /\ UNCHANGED spent

\* Mutant of MayRetry: retries without an end.
RetryForever(c) == TRUE

MayRetry(c) == call[c].attempt < MaxRetries

\* 429 and 5xx answers, a ban with a short Retry-After, and network errors are
\* tried again after a backoff.  The limiter is not asked again.
Retry(c) ==
  /\ call[c].pc = "waiting" /\ MayRetry(c)
  /\ ErrorReported(c)
  /\ call' = [call EXCEPT ![c].pc = "sending", ![c].reported = 0,
                          ![c].attempt = @ + 1]
  /\ UNCHANGED <<spent, scanned, health>>

\* Other 4xx answers and a ban fail at once, the rest when no retry is left.  The
\* scan's provider turns the error into a symbol without data.
Fail(c) ==
  /\ call[c].pc = "waiting" /\ (call[c].reported > 0 \/ ~MayRetry(c))
  /\ ErrorReported(c)
  /\ Returned(c, FALSE)
  /\ UNCHANGED spent

\* The minute turns, for the exchange and for the limiter's next look.
NewMinute ==
  /\ spent' = 0 /\ limiter' = [limiter EXCEPT !.current = FALSE]
  /\ UNCHANGED <<call, scanned, health>>

FeedStep(c) == Acquire(c) \/ Send(c) \/ Succeed(c) \/ Retry(c) \/ Fail(c)
FeedNext == ScanBegins \/ NewMinute \/ \E c \in Callers : FeedStep(c)

FeedSpec == FeedInit /\ [][FeedNext]_feedVars

-----------------------------------------------------------------------------
(* Properties.                                                             *)

\* Within a minute every admitted request is sent MaxRetries + 1 times at most, and
\* so is every request admitted before the minute turned.
MostSpent == (MaxRetries + 1) * (MaxWeight + SumFunction(Charge))

\* Types of the request and limiter state.
FeedTypeOK ==
  /\ limiter \in [current : BOOLEAN, client : 0..MaxWeight, server : 0..MostSpent]
  /\ call \in [Callers -> [pc : {"idle", "sending", "waiting"},
                           attempt : 0..MaxRetries, reported : 0..MostSpent]]
  /\ spent \in Nat
  /\ scanned \in [left : 0..UniverseSize, usable : 0..UniverseSize]
  /\ health \in [failures : 0..MaxDataFailures, total : {0, UniverseSize},
                 usable : 0..UniverseSize]

\* Whatever the exchange answers and however the threads interleave around the turn
\* of a minute, the exchange is never asked for more than MostSpent per minute.  The
\* limiter alone does not give this: retries are sent without asking it.
AttemptsWithinBudget == spent <= MostSpent

\* A scan that asked for symbols and got no usable data never reads as healthy, and
\* a healthy reading means that every symbol of the last scan was usable.
LossIsSeen == DataHealth = "HEALTHY" => health.usable = health.total
===============================================================================
