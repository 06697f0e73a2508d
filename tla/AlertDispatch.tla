----------------------------- MODULE AlertDispatch ----------------------------
(***************************************************************************)
(* The Telegram alerts: the scan thread, the request handlers and the      *)
(* worker share one dispatcher, which has no lock, and deliver on their    *)
(* own time.  Alerts with a state value are sent when the state changes,   *)
(* the others at most once per cooldown; critical ones skip the cooldown   *)
(* and the rate limit.  Time passes in units of the shortest cooldown.     *)
(***************************************************************************)
EXTENDS Integers, FiniteSets, Functions

CONSTANTS Dispatchers,     \* threads that dispatch
          AlertKinds,      \* what they dispatch
          StateOf,         \* state value of a kind, or NoState
          KeyOf,           \* its key
          Critical,        \* the critical kinds
          NoState,
          Cooldown, RateWindow, MaxPerWindow,
          DeliveryAttempts,\* max_retries
          MaxClock         \* bound

ASSUME AlertConstants ==
  /\ IsFiniteSet(Dispatchers) /\ AlertKinds # {} /\ Critical \subseteq AlertKinds
  /\ {Cooldown, RateWindow, MaxPerWindow, DeliveryAttempts} \subseteq Nat \ {0}
  /\ MaxClock \in Nat

\* A critical alert shares its key and state value with no other kind.
ASSUME CriticalStatesAreTheirOwn ==
  \A k \in Critical, l \in AlertKinds :
    StateOf[k] # NoState /\ KeyOf[l] = KeyOf[k] /\ StateOf[l] = StateOf[k] => l = k

VARIABLES clock,
          enabled,      \* settings.enabled, the master switch
          stateCache,   \* _state_cache by key
          cooldown,     \* _cooldown_tracker: by key the check time of the last delivery, or -1;
                        \* those of critical alerts are never read
          window,       \* _rate_limit_window: deliveries by check time
          dispatch,     \* the dispatch of each thread
          sent,         \* history: deliveries of each key by check time
          raised, heard, missed \* history of the critical kinds: dispatched, shown to the
                                \* operator, failed to be delivered

alertVars == <<clock, enabled, stateCache, cooldown, window, dispatch, sent, raised, heard, missed>>

Keys == {KeyOf[k] : k \in AlertKinds}
PlainKeys == {KeyOf[k] : k \in AlertKinds \ Critical}
Clock == 0..MaxClock
Nothing == [t \in Clock |-> 0]
NoDispatch == [pc |-> "idle", kind |-> CHOOSE k \in AlertKinds : TRUE, checked |-> 0,
               attempt |-> 0, kept |-> Nothing]

AlertInit ==
  /\ clock = 0 /\ enabled = TRUE
  /\ stateCache = [k \in Keys |-> NoState]
  /\ cooldown = [k \in PlainKeys |-> -1]
  /\ window = Nothing
  /\ dispatch = [d \in Dispatchers |-> NoDispatch]
  /\ sent = [k \in PlainKeys |-> Nothing]
  /\ raised = {} /\ heard = {} /\ missed = {}

Idle(d) == dispatch' = [dispatch EXCEPT ![d] = NoDispatch]

-----------------------------------------------------------------------------
(* dispatch_alert, step by step.                                           *)

\* is_category_enabled.
Muted(k) == ~enabled /\ k \notin Critical

Unchanged(k) == StateOf[k] # NoState /\ stateCache[KeyOf[k]] = StateOf[k]

\* The category check, then the comparison with the last state.  A state that
\* differs is stored before the alert is known to go out.
Judge(d, k) ==
  /\ dispatch[d].pc = "idle"
  /\ raised' = raised \cup ({k} \cap Critical)
  /\ IF Muted(k) \/ Unchanged(k) THEN UNCHANGED <<dispatch, stateCache>>
     ELSE /\ stateCache' = IF StateOf[k] = NoState THEN stateCache
                           ELSE [stateCache EXCEPT ![KeyOf[k]] = StateOf[k]]
          /\ dispatch' = [dispatch EXCEPT ![d].pc = "checking", ![d].kind = k]
  /\ UNCHANGED <<clock, enabled, cooldown, window, sent, heard, missed>>

\* Mutant of Cools: the cooldown is not looked at.
CoolsNever(k) == FALSE

Cools(k) == /\ k \notin Critical
            /\ cooldown[KeyOf[k]] >= 0 /\ clock - cooldown[KeyOf[k]] < Cooldown

\* The cooldown, with the time the rest of the dispatch uses, and the copy of the
\* window without its old entries.
Check(d) ==
  /\ dispatch[d].pc = "checking"
  /\ IF Cools(dispatch[d].kind) THEN Idle(d)
     ELSE dispatch' = [dispatch EXCEPT
            ![d].pc = "admitting", ![d].checked = clock,
            ![d].kept = [t \in Clock |-> IF t >= clock - RateWindow THEN window[t] ELSE 0]]
  /\ UNCHANGED <<clock, enabled, stateCache, cooldown, window, sent, raised, heard, missed>>

\* Mutant of Limited: critical alerts wait for the rate as well.
LimitedAll(k, kept) == SumFunction(kept) >= MaxPerWindow

Limited(k, kept) == SumFunction(kept) >= MaxPerWindow /\ k \notin Critical

\* The copy replaces the window, with whatever was added to it meanwhile.
Admit(d) ==
  /\ dispatch[d].pc = "admitting"
  /\ window' = dispatch[d].kept
  /\ IF Limited(dispatch[d].kind, dispatch[d].kept) THEN Idle(d)
     ELSE dispatch' = [dispatch EXCEPT ![d].pc = "sending", ![d].attempt = 1,
                                       ![d].kept = Nothing]
  /\ UNCHANGED <<clock, enabled, stateCache, cooldown, sent, raised, heard, missed>>

\* send_message returns with Telegram's confirmation; the cooldown and the window take
\* the time of the check.
Deliver(d) ==
  LET k == dispatch[d].kind
      at == dispatch[d].checked
  IN /\ dispatch[d].pc = "sending"
     /\ window' = [window EXCEPT ![at] = IF @ < MaxPerWindow THEN @ + 1 ELSE @]
     /\ IF k \in Critical THEN heard' = heard \cup {k} /\ UNCHANGED <<cooldown, sent>>
        ELSE /\ cooldown' = [cooldown EXCEPT ![KeyOf[k]] = at]
             /\ sent' = [sent EXCEPT ![KeyOf[k]][at] = @ + 1]
             /\ UNCHANGED heard
     /\ Idle(d)
     /\ UNCHANGED <<clock, enabled, stateCache, raised, missed>>

\* No attempt succeeded, as far as the caller knows: Telegram may have shown the
\* message without its answer arriving.
AttemptFails(d) ==
  LET k == dispatch[d].kind IN
  /\ dispatch[d].pc = "sending"
  /\ heard' \in {heard, heard \cup ({k} \cap Critical)}
  /\ IF dispatch[d].attempt < DeliveryAttempts
     THEN dispatch' = [dispatch EXCEPT ![d].attempt = @ + 1] /\ UNCHANGED missed
     ELSE Idle(d) /\ missed' = missed \cup ({k} \cap Critical)
  /\ UNCHANGED <<clock, enabled, stateCache, cooldown, window, sent, raised>>

SwitchAlerts ==
  /\ enabled' = ~enabled
  /\ UNCHANGED <<clock, stateCache, cooldown, window, dispatch, sent, raised, heard, missed>>

ClockTicks ==
  /\ clock < MaxClock /\ clock' = clock + 1
  /\ UNCHANGED <<enabled, stateCache, cooldown, window, dispatch, sent, raised, heard, missed>>

DispatchStep(d) ==
  Check(d) \/ Admit(d) \/ Deliver(d) \/ AttemptFails(d) \/ \E k \in AlertKinds : Judge(d, k)
AlertNext ==
  \/ SwitchAlerts \/ ClockTicks
  \/ \E d \in Dispatchers : DispatchStep(d)

AlertSpec == AlertInit /\ [][AlertNext]_alertVars

-----------------------------------------------------------------------------
(* Properties.                                                             *)

AlertTypeOK ==
  /\ clock \in Clock /\ enabled \in BOOLEAN
  /\ stateCache \in [Keys -> {StateOf[k] : k \in AlertKinds} \cup {NoState}]
  /\ cooldown \in [PlainKeys -> Clock \cup {-1}]
  /\ window \in [Clock -> 0..MaxPerWindow]
  /\ dispatch \in [Dispatchers ->
       [pc : {"idle", "checking", "admitting", "sending"},
        kind : AlertKinds, checked : Clock, attempt : 0..DeliveryAttempts,
        kept : [Clock -> 0..MaxPerWindow]]]
  /\ sent \in [PlainKeys -> [Clock -> Nat]]
  /\ heard \cup missed \subseteq raised /\ raised \subseteq Critical

\* The threads check and record without a lock and record the time of the check.  While
\* k of n threads hold a check from before, n - k may pass before a record closes the
\* cooldown, and each late record opens it again for one thread more: no key goes out
\* more often than n + (n - 1) + ... + 1 times.
RepeatsCool ==
  LET n == Cardinality(Dispatchers) IN
  \A key \in PlainKeys, t \in Clock :
    2 * SumFunctionOnSet(sent[key], Clock \cap t..(t + Cooldown - 1)) <= n * (n + 1)

\* A critical alert that a thread raised has reached the operator, unless it is under
\* way or Telegram refused it to the last attempt: neither the switch, nor a
\* cooldown, nor the rate limit, nor a concurrent alert can mute it.
CriticalIsHeard ==
  \A k \in raised :
    \/ k \in heard \cup missed
    \/ \E d \in Dispatchers : dispatch[d].kind = k /\ dispatch[d].pc # "idle"
===============================================================================
