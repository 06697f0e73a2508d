------------------------------- MODULE Services -------------------------------
(***************************************************************************)
(* The services around the engine: market data requests, the candle        *)
(* stream, the alert dispatcher, the command bot and the journal.  They    *)
(* share no state, so a behaviour is about one of them, the subject, and   *)
(* the others rest.                                                        *)
(***************************************************************************)
EXTENDS MarketFeed, CandleStream, AlertDispatch, TelegramBot, Journal

VARIABLE subject

vars == <<subject, feedVars, streamVars, alertVars, botVars, journalVars>>

Init ==
  /\ subject \in {"feed", "stream", "alerts", "bot", "journal"}
  /\ FeedInit /\ StreamInit /\ AlertInit /\ BotInit /\ JournalInit

FeedMoves ==
  /\ subject = "feed" /\ FeedNext
  /\ UNCHANGED <<streamVars, alertVars, botVars, journalVars>>

StreamMoves ==
  /\ subject = "stream" /\ StreamNext
  /\ UNCHANGED <<feedVars, alertVars, botVars, journalVars>>

AlertsMove ==
  /\ subject = "alerts" /\ AlertNext
  /\ UNCHANGED <<feedVars, streamVars, botVars, journalVars>>

BotMoves ==
  /\ subject = "bot" /\ BotNext
  /\ UNCHANGED <<feedVars, streamVars, alertVars, journalVars>>

JournalMoves ==
  /\ subject = "journal" /\ JournalNext
  /\ UNCHANGED <<feedVars, streamVars, alertVars, botVars>>

Next ==
  /\ UNCHANGED subject
  /\ FeedMoves \/ StreamMoves \/ AlertsMove \/ BotMoves \/ JournalMoves

\* Each service under the fairness of its own specification; a service at rest is
\* not asked to move.
Fairness ==
  /\ subject = "stream" => StreamFairness
  /\ subject = "bot" => BotFairness

Spec == Init /\ [][Next]_vars /\ Fairness

\* Types of the five services.
TypeOK == FeedTypeOK /\ StreamTypeOK /\ AlertTypeOK /\ BotTypeOK /\ JournalTypeOK
===============================================================================
