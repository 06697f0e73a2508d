----------------------------- MODULE CandleStream -----------------------------
(***************************************************************************)
(* The WebSocket stream of candles: one connection for several symbols,    *)
(* reconnected with a bounded number of attempts.  The exchange may send   *)
(* any candle of any symbol at any time, again after a reconnection too.   *)
(***************************************************************************)
EXTENDS Integers, Sequences

CONSTANTS StreamSymbols,
          MaxOpenTime,     \* bound: open times of the candles
          MaxReconnects    \* max_reconnect_attempts

ASSUME StreamConstants == MaxOpenTime \in Nat /\ MaxReconnects \in Nat

VARIABLES stream,    \* the manager: where its loop is, reconnections in a row, stop request
          lastSeen,  \* the handler's last open time
          emitted,   \* history: the candles handed to the callback
          reachable  \* whether connections to the exchange can succeed

streamVars == <<stream, lastSeen, emitted, reachable>>

Candles == [symbol : StreamSymbols, time : 0..MaxOpenTime]

StreamInit ==
  /\ stream = [pc |-> "connecting", failures |-> 0, stop |-> FALSE]
  /\ lastSeen = -1 /\ emitted = <<>> /\ reachable = TRUE

\* Mutant of GivesUp: the attempts have no end.
GivesUpNever(failures) == FALSE

GivesUp(failures) == failures > MaxReconnects

\* _reconnect: one more attempt after a delay, or the end of the stream.  A stop
\* request ends it as well.
Reconnected ==
  LET failures == stream.failures + 1 IN
  IF stream.stop THEN [stream EXCEPT !.pc = "stopped"]
  ELSE IF GivesUp(failures) THEN [pc |-> "stopped", failures |-> failures, stop |-> TRUE]
  ELSE [stream EXCEPT !.pc = "connecting",
                      !.failures = IF failures <= MaxReconnects THEN failures ELSE @]

\* A connection sets the count back.  A stop request seen after a delay ends the
\* loop before another attempt.
Connect ==
  /\ stream.pc = "connecting"
  /\ IF stream.stop THEN stream' = [stream EXCEPT !.pc = "stopped"]
     ELSE IF reachable THEN stream' = [stream EXCEPT !.pc = "receiving", !.failures = 0]
     ELSE stream' = Reconnected
  /\ UNCHANGED <<lastSeen, emitted, reachable>>

\* Mutant of Duplicate: only the same candle again is a duplicate.
DuplicateOfLast(c) == c.time = lastSeen

\* One last open time serves all symbols.
Duplicate(c) == c.time <= lastSeen

\* handle_event with a closed candle that parses: the callback may raise, and then
\* the connection is given up.
Receive(c) ==
  /\ stream.pc = "receiving" /\ reachable
  /\ IF stream.stop THEN stream' = [stream EXCEPT !.pc = "stopped"] /\ UNCHANGED <<lastSeen, emitted>>
     ELSE IF Duplicate(c) THEN UNCHANGED <<stream, lastSeen, emitted>>
     ELSE /\ lastSeen' = c.time /\ emitted' = Append(emitted, c)
          /\ stream' \in {stream, Reconnected}
  /\ UNCHANGED reachable

\* The connection closes or breaks.
Disconnect ==
  /\ stream.pc = "receiving"
  /\ stream' = Reconnected
  /\ UNCHANGED <<lastSeen, emitted, reachable>>

RequestStop ==
  /\ ~stream.stop
  /\ stream' = [stream EXCEPT !.stop = TRUE]
  /\ UNCHANGED <<lastSeen, emitted, reachable>>

NetworkTurns ==
  /\ reachable' = ~reachable
  /\ UNCHANGED <<stream, lastSeen, emitted>>

StreamNext == Connect \/ Disconnect \/ RequestStop \/ NetworkTurns \/ \E c \in Candles : Receive(c)

\* An attempt to connect returns, and a connection without a network breaks.
StreamFairness == WF_streamVars(Connect \/ (~reachable /\ Disconnect))
StreamSpec == StreamInit /\ [][StreamNext]_streamVars /\ StreamFairness

-----------------------------------------------------------------------------
(* Properties.                                                             *)

StreamTypeOK ==
  /\ stream \in [pc : {"connecting", "receiving", "stopped"},
                 failures : 0..(MaxReconnects + 1), stop : BOOLEAN]
  /\ lastSeen \in -1..MaxOpenTime /\ emitted \in Seq(Candles) /\ reachable \in BOOLEAN

\* Whatever the exchange sends again after a reconnection, no candle is handed out
\* twice, and candles come in the order of their open times.
CandlesInOrder ==
  \A i, j \in DOMAIN emitted : i < j => emitted[i].time < emitted[j].time

\* Without a network the stream ends instead of trying for ever.
StreamGivesUp == <>[]~reachable => <>(stream.pc = "stopped")
===============================================================================
