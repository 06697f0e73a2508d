------------------------------ MODULE TelegramBot -----------------------------
(***************************************************************************)
(* The command bot: it polls Telegram for messages, which the operator     *)
(* numbers by sending them, turns each into a request to the HTTP API and  *)
(* waits for the answer or for a timeout.  The API runs every request on a *)
(* thread of its own.  The position in the stream of messages is in memory *)
(* only; Telegram keeps what a poll has not confirmed.                     *)
(***************************************************************************)
EXTENDS Integers, Sequences, FiniteSets

CONSTANTS MaxMessages,  \* bound: messages of the operator
          MaxBotCrashes \* bound

ASSUME BotConstants == MaxMessages \in Nat /\ MaxBotCrashes \in Nat

VARIABLES written,   \* messages the operator sent
          confirmed, \* the last one Telegram will not deliver again
          bot,       \* the polling thread: last update id, rest of its batch, step
          requests,  \* requests the API took but has not executed, with the process they are of
          executed,  \* history: executed commands in order
          answered,  \* history: messages the bot routed or refused
          late, botCrashes \* history: whether a request timed out; crashes

botVars == <<written, confirmed, bot, requests, executed, answered, late, botCrashes>>

Fresh == [pc |-> "polling", last |-> 0, batchEnd |-> 0]

BotInit ==
  /\ written = 0 /\ confirmed = 0 /\ bot = Fresh
  /\ requests = {} /\ executed = <<>> /\ answered = {} /\ late = FALSE /\ botCrashes = 0

Write ==
  /\ written < MaxMessages /\ written' = written + 1
  /\ UNCHANGED <<confirmed, bot, requests, executed, answered, late, botCrashes>>

\* Mutant of Offset: the offset is one too far.
OffsetBeyond == bot.last + 1

\* Mutant of Offset: the offset lags behind the last update.
OffsetBehind == bot.last - 1

\* The offset of a poll confirms everything up to the last update id; a new process
\* sends none.
Offset == bot.last

MaxOf(a, b) == IF a > b THEN a ELSE b
ConfirmedBy(offset) == IF bot.last = 0 THEN confirmed ELSE MaxOf(confirmed, offset)

\* getUpdates: Telegram confirms by the offset and answers with the messages after it.
PollAnswered ==
  /\ bot.pc = "polling"
  /\ confirmed' = ConfirmedBy(Offset)
  /\ written > confirmed'
  /\ bot' = [pc |-> "handling", last |-> confirmed', batchEnd |-> written]
  /\ UNCHANGED <<written, requests, executed, answered, late, botCrashes>>

\* The answer of a poll is lost or empty; the confirmation may have arrived.
PollLost ==
  /\ bot.pc = "polling"
  /\ confirmed' \in {confirmed, ConfirmedBy(Offset)}
  /\ UNCHANGED <<written, bot, requests, executed, answered, late, botCrashes>>

\* After a reply, sent or not, the next message of the batch, or the next poll.
NextMessage == IF bot.last < bot.batchEnd THEN "handling" ELSE "polling"

\* The next message of the batch: its update id is kept first.  A message that is
\* not from the operator, is not a command, or has a forbidden word gets a reply
\* alone, and so does a command whose request does not reach the API; any other is
\* posted.
Handle ==
  LET m == bot.last + 1 IN
  /\ bot.pc = "handling"
  /\ answered' = answered \cup {m}
  /\ \/ /\ bot' = [bot EXCEPT !.last = m, !.pc = "replying"]
        /\ UNCHANGED requests
     \/ /\ bot' = [bot EXCEPT !.last = m, !.pc = "waiting"]
        /\ requests' = requests \cup {<<m, botCrashes>>}
  /\ UNCHANGED <<written, confirmed, executed, late, botCrashes>>

\* A handler thread of the API runs the command.
Execute(r) ==
  /\ requests' = requests \ {r} /\ executed' = Append(executed, r[1])
  /\ UNCHANGED <<written, confirmed, bot, answered, late, botCrashes>>

\* Mutant of Done: the bot does not wait for the answer.
DoneAtOnce == TRUE

\* The answer to the request of the current message.
Done == <<bot.last, botCrashes>> \notin requests

\* The API answered.
Answer ==
  /\ bot.pc = "waiting" /\ Done
  /\ bot' = [bot EXCEPT !.pc = "replying"]
  /\ UNCHANGED <<written, confirmed, requests, executed, answered, late, botCrashes>>

\* No answer within the timeout: the reply says that the command failed, while the
\* API still holds it.
TimeOut ==
  /\ bot.pc = "waiting" /\ ~Done
  /\ bot' = [bot EXCEPT !.pc = "replying"] /\ late' = TRUE
  /\ UNCHANGED <<written, confirmed, requests, executed, answered, botCrashes>>

\* send_reply returns whether or not the reply was delivered.
Reply ==
  /\ bot.pc = "replying"
  /\ bot' = [bot EXCEPT !.pc = NextMessage]
  /\ UNCHANGED <<written, confirmed, requests, executed, answered, late, botCrashes>>

\* The bot's process dies, with the API of the same process or without that of
\* another one, and starts again without its position.
BotCrash ==
  /\ botCrashes < MaxBotCrashes /\ botCrashes' = botCrashes + 1
  /\ bot' = Fresh /\ requests' \in {requests, {}}
  /\ UNCHANGED <<written, confirmed, executed, answered, late>>

BotStep == PollAnswered \/ Handle \/ Answer \/ TimeOut \/ Reply
BotNext == BotStep \/ PollLost \/ Write \/ BotCrash \/ \E r \in requests : Execute(r)

\* The loop goes on, and a poll that could be answered does not fail for ever.
BotFairness == WF_botVars(BotStep)
BotSpec == BotInit /\ [][BotNext]_botVars /\ BotFairness

-----------------------------------------------------------------------------
(* Properties.                                                             *)

Messages == 1..MaxMessages

BotTypeOK ==
  /\ written \in 0..MaxMessages /\ confirmed \in 0..written
  /\ bot \in [pc : {"polling", "handling", "waiting", "replying"}, last : 0..written,
              batchEnd : 0..written]
  /\ requests \subseteq Messages \X (0..MaxBotCrashes) /\ answered \subseteq 1..written
  /\ executed \in Seq(Messages) /\ late \in BOOLEAN /\ botCrashes \in 0..MaxBotCrashes

\* Telegram drops a message only after the bot routed or refused it: whatever is lost
\* on the way, and wherever the process dies, no command vanishes unseen.
ConfirmedIsAnswered == 1..confirmed \subseteq answered

\* A command runs once, and once more for each time the process died before its
\* confirmation.
RunsOncePerProcess ==
  \A m \in Messages : Cardinality({i \in DOMAIN executed : executed[i] = m}) <= 1 + botCrashes

\* While no request timed out and the process did not die, commands run in the order
\* in which the operator sent them.
RunInOrder ==
  (~late /\ botCrashes = 0) =>
    \A i, j \in DOMAIN executed : i < j => executed[i] < executed[j]

\* Every message is routed or refused at last.
MessagesAreAnswered == []<>(1..written \subseteq answered)
===============================================================================
