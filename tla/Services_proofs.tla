---------------------------- MODULE Services_proofs ----------------------------
(***************************************************************************)
(* Proofs about AlertDispatch, for any number of threads and any alerts;   *)
(* Journal, for any trades, clocks and failed writes; and the five         *)
(* services together.                                                      *)
(***************************************************************************)
EXTENDS Services, Clients_proofs

-----------------------------------------------------------------------------
(* The alerts.                                                             *)

Dispatches ==
  [pc : {"idle", "checking", "admitting", "sending"},
   kind : AlertKinds, checked : Clock, attempt : 0..DeliveryAttempts,
   kept : [Clock -> 0..MaxPerWindow]]

\* A state value of a critical alert is cached by that alert alone, and a critical
\* dispatch under way was raised.
CriticalIsTracked ==
  /\ \A k \in Critical :
       StateOf[k] # NoState /\ stateCache[KeyOf[k]] = StateOf[k] => k \in raised
  /\ \A d \in Dispatchers :
       dispatch[d].pc # "idle" /\ dispatch[d].kind \in Critical => dispatch[d].kind \in raised

AlertInv == AlertTypeOK /\ CriticalIsTracked /\ CriticalIsHeard

-----------------------------------------------------------------------------
(* Values.                                                                 *)

\* Clock times, empty windows and resting threads have their types.
LEMMA RestingTypes ==
  /\ 0 \in Clock /\ Nothing \in [Clock -> 0..MaxPerWindow]
  /\ NoDispatch \in Dispatches /\ NoDispatch.pc = "idle"
<1>1. 0 \in Clock /\ 0 \in 0..MaxPerWindow /\ 0 \in 0..DeliveryAttempts
  BY AlertConstants DEF Clock
<1>2. Nothing \in [Clock -> 0..MaxPerWindow]
  BY <1>1 DEF Nothing
<1>3. (CHOOSE k \in AlertKinds : TRUE) \in AlertKinds
  BY AlertConstants
<1> QED
  BY <1>1, <1>2, <1>3 DEF NoDispatch, Dispatches

-----------------------------------------------------------------------------
(* The steps of one thread.                                                *)

\* A raised critical alert is dispatched, or its state says that it was before.
LEMMA JudgeStep ==
  ASSUME AlertInv, NEW d \in Dispatchers, NEW k \in AlertKinds, Judge(d, k)
  PROVE  AlertInv'
<1>1. /\ dispatch[d].pc = "idle" /\ raised' = raised \cup ({k} \cap Critical)
      /\ UNCHANGED <<clock, enabled, cooldown, window, sent, heard, missed>>
  BY DEF Judge
<1>2. CASE Muted(k) \/ Unchanged(k)
  <2>1. UNCHANGED <<dispatch, stateCache>>
    BY <1>2 DEF Judge
  <2>2. raised' = raised
    BY <1>1, <1>2 DEF Muted, Unchanged, AlertInv, CriticalIsTracked
  <2> QED
    BY <1>1, <2>1, <2>2 DEF AlertInv, AlertTypeOK, CriticalIsTracked, CriticalIsHeard
<1>3. CASE ~(Muted(k) \/ Unchanged(k))
  <2>1. /\ stateCache' = IF StateOf[k] = NoState THEN stateCache
                         ELSE [stateCache EXCEPT ![KeyOf[k]] = StateOf[k]]
        /\ dispatch' = [dispatch EXCEPT ![d].pc = "checking", ![d].kind = k]
    BY <1>3 DEF Judge
  <2>2. /\ dispatch'[d].pc = "checking" /\ dispatch'[d].kind = k
        /\ \A e \in Dispatchers \ {d} : dispatch'[e] = dispatch[e]
        /\ dispatch' \in [Dispatchers -> Dispatches]
    <3>1. dispatch \in [Dispatchers -> Dispatches] /\ dispatch[d] \in Dispatches
      BY DEF AlertInv, AlertTypeOK, Dispatches
    <3>2. [dispatch[d] EXCEPT !.pc = "checking", !.kind = k] \in Dispatches
      BY <3>1 DEF Dispatches
    <3>3. dispatch' = [dispatch EXCEPT ![d] = [dispatch[d] EXCEPT !.pc = "checking", !.kind = k]]
      BY <2>1, <3>1
    <3> QED
      BY <3>1, <3>2, <3>3 DEF Dispatches
  <2>3. KeyOf[k] \in Keys
    BY DEF Keys
  <2>4. stateCache' \in [Keys -> {StateOf[l] : l \in AlertKinds} \cup {NoState}]
    BY <2>1, <2>3 DEF AlertInv, AlertTypeOK
  <2>5. AlertTypeOK'
    <3>1. heard' \cup missed' \subseteq raised' /\ raised' \subseteq Critical
      BY <1>1 DEF AlertInv, AlertTypeOK
    <3> QED
      BY <1>1, <2>2, <2>4, <3>1 DEF AlertInv, AlertTypeOK, Dispatches
  <2>6. CriticalIsTracked'
    <3>1. ASSUME NEW l \in Critical, StateOf[l] # NoState, stateCache'[KeyOf[l]] = StateOf[l]
          PROVE  l \in raised'
      <4>1. l \in AlertKinds /\ KeyOf[l] \in Keys
        BY AlertConstants DEF Keys
      <4>2. CASE stateCache[KeyOf[l]] = StateOf[l]
        BY <1>1, <3>1, <4>2 DEF AlertInv, CriticalIsTracked
      <4>3. CASE stateCache[KeyOf[l]] # StateOf[l]
        <5>1. KeyOf[l] = KeyOf[k] /\ StateOf[k] = StateOf[l]
          BY <2>1, <2>3, <3>1, <4>1, <4>3 DEF AlertInv, AlertTypeOK
        <5>2. k = l
          BY <3>1, <5>1, CriticalStatesAreTheirOwn
        <5> QED
          BY <1>1, <5>2
      <4> QED
        BY <4>2, <4>3
    <3>2. ASSUME NEW e \in Dispatchers, dispatch'[e].pc # "idle", dispatch'[e].kind \in Critical
          PROVE  dispatch'[e].kind \in raised'
      BY <1>1, <2>2, <3>2 DEF AlertInv, CriticalIsTracked
    <3> QED
      BY <3>1, <3>2 DEF CriticalIsTracked
  <2>7. CriticalIsHeard'
    BY <1>1, <2>2 DEF AlertInv, CriticalIsHeard
  <2> QED
    BY <2>5, <2>6, <2>7 DEF AlertInv
<1> QED
  BY <1>2, <1>3

\* A thread that goes on with its alert, or drops one that is not critical, loses no
\* critical alert.
LEMMA StillUnderWay ==
  ASSUME AlertInv, NEW d \in Dispatchers, NEW x \in Dispatches,
         dispatch' = [dispatch EXCEPT ![d] = x],
         UNCHANGED <<stateCache, raised, heard, missed>>,
         \/ x.pc # "idle" /\ x.kind = dispatch[d].kind /\ dispatch[d].pc # "idle"
         \/ x.pc = "idle" /\ dispatch[d].kind \notin Critical
  PROVE  dispatch' \in [Dispatchers -> Dispatches] /\ CriticalIsTracked' /\ CriticalIsHeard'
<1>1. /\ dispatch'[d] = x
      /\ \A e \in Dispatchers \ {d} : dispatch'[e] = dispatch[e]
      /\ dispatch' \in [Dispatchers -> Dispatches]
  BY DEF AlertInv, AlertTypeOK, Dispatches
<1>2. CriticalIsTracked'
  BY <1>1 DEF AlertInv, CriticalIsTracked
<1>3. CriticalIsHeard'
  <2>1. SUFFICES ASSUME NEW k \in raised, k \notin heard \cup missed
                 PROVE  \E e \in Dispatchers : dispatch'[e].kind = k /\ dispatch'[e].pc # "idle"
    BY DEF CriticalIsHeard
  <2>2. PICK e \in Dispatchers : dispatch[e].kind = k /\ dispatch[e].pc # "idle"
    BY <2>1 DEF AlertInv, CriticalIsHeard
  <2>3. k \in Critical
    BY DEF AlertInv, AlertTypeOK
  <2> QED
    BY <1>1, <2>2, <2>3
<1> QED
  BY <1>1, <1>2, <1>3

\* No cooldown holds a critical alert up.
LEMMA CheckStep ==
  ASSUME AlertInv, NEW d \in Dispatchers, Check(d)
  PROVE  AlertInv'
<1>1. /\ dispatch[d].pc = "checking"
      /\ UNCHANGED <<clock, enabled, stateCache, cooldown, window, sent, raised, heard, missed>>
  BY DEF Check
<1>2. CASE Cools(dispatch[d].kind)
  <2>1. dispatch' = [dispatch EXCEPT ![d] = NoDispatch] /\ dispatch[d].kind \notin Critical
    BY <1>2 DEF Check, Idle, Cools
  <2>2. dispatch' \in [Dispatchers -> Dispatches] /\ CriticalIsTracked' /\ CriticalIsHeard'
    BY <1>1, <2>1, RestingTypes, StillUnderWay
  <2> QED
    BY <1>1, <2>2 DEF AlertInv, AlertTypeOK, Dispatches
<1>3. CASE ~Cools(dispatch[d].kind)
  <2> DEFINE kept == [t \in Clock |-> IF t >= clock - RateWindow THEN window[t] ELSE 0]
             x == [dispatch[d] EXCEPT !.pc = "admitting", !.checked = clock, !.kept = kept]
  <2>1. dispatch' = [dispatch EXCEPT ![d] = x]
    BY <1>3 DEF Check
  <2>2. kept \in [Clock -> 0..MaxPerWindow]
    BY RestingTypes, AlertConstants DEF AlertInv, AlertTypeOK
  <2>3. x \in Dispatches /\ x.pc # "idle" /\ x.kind = dispatch[d].kind
    BY <2>2 DEF AlertInv, AlertTypeOK, Dispatches
  <2>4. dispatch' \in [Dispatchers -> Dispatches] /\ CriticalIsTracked' /\ CriticalIsHeard'
    BY <1>1, <2>1, <2>3, StillUnderWay
  <2> QED
    BY <1>1, <2>4 DEF AlertInv, AlertTypeOK, Dispatches
<1> QED
  BY <1>2, <1>3

\* No rate limit holds a critical alert up.
LEMMA AdmitStep ==
  ASSUME AlertInv, NEW d \in Dispatchers, Admit(d)
  PROVE  AlertInv'
<1>1. /\ dispatch[d].pc = "admitting" /\ window' = dispatch[d].kept
      /\ UNCHANGED <<clock, enabled, stateCache, cooldown, sent, raised, heard, missed>>
  BY DEF Admit
<1>2. window' \in [Clock -> 0..MaxPerWindow]
  BY <1>1 DEF AlertInv, AlertTypeOK
<1>3. dispatch' \in [Dispatchers -> Dispatches] /\ CriticalIsTracked' /\ CriticalIsHeard'
  <2>1. CASE Limited(dispatch[d].kind, dispatch[d].kept)
    <3>1. dispatch' = [dispatch EXCEPT ![d] = NoDispatch] /\ dispatch[d].kind \notin Critical
      BY <2>1 DEF Admit, Idle, Limited
    <3> QED
      BY <1>1, <3>1, RestingTypes, StillUnderWay
  <2>2. CASE ~Limited(dispatch[d].kind, dispatch[d].kept)
    <3> DEFINE x == [dispatch[d] EXCEPT !.pc = "sending", !.attempt = 1, !.kept = Nothing]
    <3>1. dispatch' = [dispatch EXCEPT ![d] = x]
      BY <2>2 DEF Admit
    <3>2. 1 \in 0..DeliveryAttempts
      BY AlertConstants
    <3>3. x \in Dispatches /\ x.pc # "idle" /\ x.kind = dispatch[d].kind
      BY <3>2, RestingTypes DEF AlertInv, AlertTypeOK, Dispatches
    <3> QED
      BY <1>1, <3>1, <3>3, StillUnderWay
  <2> QED
    BY <2>1, <2>2
<1> QED
  BY <1>1, <1>2, <1>3 DEF AlertInv, AlertTypeOK, Dispatches

\* The end of a dispatch that delivers or gives up leaves the others under way.
LEMMA EndStep ==
  ASSUME AlertInv, NEW d \in Dispatchers, dispatch[d].pc # "idle", Idle(d),
         UNCHANGED <<stateCache, raised>>,
         heard \subseteq heard', missed \subseteq missed', 
         heard' \cup missed' \subseteq heard \cup missed \cup ({dispatch[d].kind} \cap Critical),
         dispatch[d].kind \in Critical => dispatch[d].kind \in heard' \cup missed'
  PROVE  /\ dispatch' \in [Dispatchers -> Dispatches] /\ CriticalIsTracked' /\ CriticalIsHeard'
         /\ heard' \cup missed' \subseteq raised'
<1>1. /\ dispatch'[d].pc = "idle"
      /\ \A e \in Dispatchers \ {d} : dispatch'[e] = dispatch[e]
      /\ dispatch' \in [Dispatchers -> Dispatches]
  BY RestingTypes DEF Idle, AlertInv, AlertTypeOK, Dispatches
<1>2. CriticalIsTracked' /\ heard' \cup missed' \subseteq raised'
  BY <1>1 DEF AlertInv, AlertTypeOK, CriticalIsTracked
<1>3. CriticalIsHeard'
  <2>1. SUFFICES ASSUME NEW k \in raised, k \notin heard' \cup missed'
                 PROVE  \E e \in Dispatchers : dispatch'[e].kind = k /\ dispatch'[e].pc # "idle"
    BY DEF CriticalIsHeard
  <2>2. PICK e \in Dispatchers : dispatch[e].kind = k /\ dispatch[e].pc # "idle"
    BY <2>1 DEF AlertInv, CriticalIsHeard
  <2>3. e # d
    BY <2>1, <2>2 DEF AlertInv, AlertTypeOK
  <2> QED
    BY <1>1, <2>2, <2>3
<1> QED
  BY <1>1, <1>2, <1>3

\* A delivery is heard.
LEMMA DeliverStep ==
  ASSUME AlertInv, NEW d \in Dispatchers, Deliver(d)
  PROVE  AlertInv'
<1> DEFINE k == dispatch[d].kind
           at == dispatch[d].checked
<1>1. /\ dispatch[d].pc = "sending" /\ Idle(d)
      /\ window' = [window EXCEPT ![at] = IF @ < MaxPerWindow THEN @ + 1 ELSE @]
      /\ UNCHANGED <<clock, enabled, stateCache, raised, missed>>
      /\ IF k \in Critical THEN heard' = heard \cup {k} /\ UNCHANGED <<cooldown, sent>>
         ELSE /\ cooldown' = [cooldown EXCEPT ![KeyOf[k]] = at]
              /\ sent' = [sent EXCEPT ![KeyOf[k]][at] = @ + 1]
              /\ UNCHANGED heard
  BY DEF Deliver
<1>2. k \in AlertKinds /\ at \in Clock
  BY DEF AlertInv, AlertTypeOK
<1>3. window' \in [Clock -> 0..MaxPerWindow]
  <2>1. window \in [Clock -> 0..MaxPerWindow]
    BY DEF AlertInv, AlertTypeOK
  <2>2. (IF window[at] < MaxPerWindow THEN window[at] + 1 ELSE window[at]) \in 0..MaxPerWindow
    BY <1>2, <2>1, AlertConstants
  <2> QED
    BY <1>1, <1>2, <2>1, <2>2
<1>4. cooldown' \in [PlainKeys -> Clock \cup {-1}] /\ sent' \in [PlainKeys -> [Clock -> Nat]]
  <2>1. CASE k \in Critical
    BY <1>1, <2>1 DEF AlertInv, AlertTypeOK
  <2>2. CASE k \notin Critical
    <3>1. KeyOf[k] \in PlainKeys
      BY <1>2, <2>2 DEF PlainKeys
    <3>2. sent \in [PlainKeys -> [Clock -> Nat]] /\ cooldown \in [PlainKeys -> Clock \cup {-1}]
      BY DEF AlertInv, AlertTypeOK
    <3>3. sent[KeyOf[k]][at] + 1 \in Nat
      BY <1>2, <3>1, <3>2
    <3>4. cooldown' \in [PlainKeys -> Clock \cup {-1}]
      BY <1>1, <1>2, <2>2, <3>1, <3>2
    <3>5. [sent[KeyOf[k]] EXCEPT ![at] = @ + 1] \in [Clock -> Nat]
      BY <1>2, <3>1, <3>2, <3>3
    <3>6. sent' = [sent EXCEPT ![KeyOf[k]] = [sent[KeyOf[k]] EXCEPT ![at] = @ + 1]]
      BY <1>1, <2>2
    <3>7. sent' \in [PlainKeys -> [Clock -> Nat]]
      BY <3>1, <3>2, <3>5, <3>6
    <3> QED
      BY <3>4, <3>7
  <2> QED
    BY <2>1, <2>2
<1>5. /\ dispatch' \in [Dispatchers -> Dispatches] /\ CriticalIsTracked' /\ CriticalIsHeard'
      /\ heard' \cup missed' \subseteq raised'
  BY <1>1, EndStep
<1> QED
  BY <1>1, <1>3, <1>4, <1>5 DEF AlertInv, AlertTypeOK, Dispatches

\* A delivery that fails for good is recorded as missed.
LEMMA AttemptFailsStep ==
  ASSUME AlertInv, NEW d \in Dispatchers, AttemptFails(d)
  PROVE  AlertInv'
<1> DEFINE k == dispatch[d].kind
<1>1. /\ dispatch[d].pc = "sending" /\ heard' \in {heard, heard \cup ({k} \cap Critical)}
      /\ UNCHANGED <<clock, enabled, stateCache, cooldown, window, sent, raised>>
  BY DEF AttemptFails
<1>2. /\ dispatch' \in [Dispatchers -> Dispatches] /\ CriticalIsTracked' /\ CriticalIsHeard'
      /\ heard' \cup missed' \subseteq raised'
  <2>1. CASE dispatch[d].attempt < DeliveryAttempts
    <3>1. dispatch' = [dispatch EXCEPT ![d].attempt = @ + 1] /\ missed' = missed
      BY <2>1 DEF AttemptFails
    <3>2. dispatch[d].attempt + 1 \in 0..DeliveryAttempts
      BY <2>1, AlertConstants DEF AlertInv, AlertTypeOK
    <3>3. /\ dispatch'[d].kind = k /\ dispatch'[d].pc = dispatch[d].pc
          /\ \A e \in Dispatchers \ {d} : dispatch'[e] = dispatch[e]
          /\ dispatch' \in [Dispatchers -> Dispatches]
      BY <3>1, <3>2, ZenonT(30) DEF AlertInv, AlertTypeOK, Dispatches
    <3>4. heard' \cup missed' \subseteq raised'
      BY <1>1, <3>1 DEF AlertInv, AlertTypeOK, CriticalIsTracked
    <3>5. CriticalIsTracked'
      BY <1>1, <3>3 DEF AlertInv, CriticalIsTracked
    <3>6. CriticalIsHeard'
      <4>1. heard \subseteq heard' /\ \A e \in Dispatchers :
              dispatch'[e].kind = dispatch[e].kind /\ dispatch'[e].pc = dispatch[e].pc
        BY <1>1, <3>3
      <4> QED
        BY <1>1, <3>1, <4>1 DEF AlertInv, CriticalIsHeard
    <3> QED
      BY <3>3, <3>4, <3>5, <3>6
  <2>2. CASE ~(dispatch[d].attempt < DeliveryAttempts)
    <3>1. Idle(d) /\ missed' = missed \cup ({k} \cap Critical)
      BY <2>2 DEF AttemptFails
    <3> QED
      BY <1>1, <3>1, EndStep
  <2> QED
    BY <2>1, <2>2
<1> QED
  BY <1>1, <1>2 DEF AlertInv, AlertTypeOK, Dispatches

-----------------------------------------------------------------------------
(* The whole.                                                              *)

\* Every step keeps the invariant.
LEMMA AlertStep ==
  ASSUME AlertInv, [AlertNext]_alertVars
  PROVE  AlertInv'
<1>1. CASE SwitchAlerts \/ ClockTicks \/ UNCHANGED alertVars
  <2>1. UNCHANGED <<stateCache, cooldown, window, dispatch, sent, raised, heard, missed>>
    BY <1>1 DEF SwitchAlerts, ClockTicks, alertVars
  <2>2. clock' \in Clock /\ enabled' \in BOOLEAN
    <3>1. clock \in Clock /\ enabled \in BOOLEAN
      BY DEF AlertInv, AlertTypeOK
    <3>2. CASE ClockTicks
      BY <3>1, <3>2, AlertConstants DEF ClockTicks, Clock
    <3>3. CASE SwitchAlerts \/ UNCHANGED alertVars
      BY <3>1, <3>3 DEF SwitchAlerts, alertVars
    <3> QED
      BY <1>1, <3>2, <3>3
  <2> QED
    BY <2>1, <2>2 DEF AlertInv, AlertTypeOK, CriticalIsTracked, CriticalIsHeard
<1> QED
  BY <1>1, JudgeStep, CheckStep, AdmitStep, DeliverStep, AttemptFailsStep
  DEF AlertNext, DispatchStep

\* The initial state.
LEMMA AlertStart == AlertInit => AlertInv
<1>1. SUFFICES ASSUME AlertInit
               PROVE  AlertInv
  OBVIOUS
<1>2. AlertTypeOK
  <2>1. 0 \in Nat /\ 0 \in Clock
    BY RestingTypes
  <2>2. Nothing \in [Clock -> Nat]
    BY <2>1 DEF Nothing
  <2> QED
    BY <1>1, <2>1, <2>2, RestingTypes DEF AlertInit, AlertTypeOK, Dispatches
<1>3. CriticalIsTracked
  <2>1. \A k \in Critical : KeyOf[k] \in Keys
    BY AlertConstants DEF Keys
  <2> QED
    BY <1>1, <2>1, RestingTypes DEF AlertInit, CriticalIsTracked
<1>4. CriticalIsHeard
  BY <1>1 DEF AlertInit, CriticalIsHeard
<1> QED
  BY <1>2, <1>3, <1>4 DEF AlertInv

\* The dispatcher's types and its record of critical alerts.
THEOREM AlertInvariant == AlertSpec => []AlertInv
<1> QED
  BY AlertStart, AlertStep, PTL DEF AlertSpec

\* A critical alert that was raised is heard, missed after its last attempt, or under
\* way: no switch, cooldown, rate limit, cached state or concurrent dispatch of
\* alerts.py mutes it, for any number of threads and kinds of alerts.
THEOREM CriticalAlertsAreHeard == AlertSpec => []CriticalIsHeard
<1> QED
  BY AlertInvariant, PTL DEF AlertInv

-----------------------------------------------------------------------------
(* How often an alert is repeated.                                         *)

\* An alert of a plain key is past its check.
InFlight(x, key) ==
  /\ x.pc \in {"admitting", "sending"} /\ x.kind \notin Critical /\ KeyOf[x.kind] = key

\* For the alerts of a key and a cooldown from t on: its times, the threads that passed
\* the check before it, those that passed it in it, and what was delivered of it.
Times(t) == Clock \cap t..(t + Cooldown - 1)
Late(key, t) == {d \in Dispatchers : InFlight(dispatch[d], key) /\ dispatch[d].checked < t}
Passed(key, t) == {d \in Dispatchers : InFlight(dispatch[d], key) /\ dispatch[d].checked \in Times(t)}
Shown(key, t) == SumFunctionOnSet(sent[key], Times(t))

\* What may have been delivered (s) while the threads of L are late and those of P passed,
\* when the last record closes the cooldown and when it does not: m are not late.
Within(L, P, s, closed) ==
  LET m == Cardinality(Dispatchers) - Cardinality(L) IN
  IF closed THEN 2 * (s + Cardinality(P)) <= m * (m + 1)
  ELSE 2 * s <= m * (m - 1)

RepeatInv ==
  /\ \A d \in Dispatchers : dispatch[d].checked <= clock
  /\ \A key \in PlainKeys : cooldown[key] <= clock /\ \A s \in Clock : s > clock => sent[key][s] = 0
  /\ \A key \in PlainKeys, t \in Clock :
       Within(Late(key, t), Passed(key, t), Shown(key, t), cooldown[key] >= t)

\* Numbers of threads.
LEMMA ThreadCounts ==
  ASSUME NEW L \in SUBSET Dispatchers, NEW P \in SUBSET Dispatchers, L \cap P = {}
  PROVE  /\ Cardinality(Dispatchers) \in Nat /\ Cardinality(L) \in Nat /\ Cardinality(P) \in Nat
         /\ Cardinality(L) + Cardinality(P) <= Cardinality(Dispatchers)
         /\ Cardinality(Dispatchers) - Cardinality(L) \in Nat
<1>1. IsFiniteSet(Dispatchers) /\ IsFiniteSet(L) /\ IsFiniteSet(P)
  BY FS_Subset, AlertConstants
<1>2. Cardinality(Dispatchers) \in Nat /\ Cardinality(L) \in Nat /\ Cardinality(P) \in Nat
  BY <1>1, FS_CardinalityType
<1>3. IsFiniteSet(L \cup P) /\ Cardinality(L \cup P) <= Cardinality(Dispatchers)
  BY <1>1, FS_Subset, AlertConstants
<1>4. Cardinality(L \cup P) = Cardinality(L) + Cardinality(P) - Cardinality(L \cap P)
  BY <1>1, FS_Union
<1>5. Cardinality(L \cap P) = 0
  BY FS_EmptySet
<1> QED
  BY <1>2, <1>3, <1>4, <1>5

\* Two consecutive numbers.
LEMMA Consecutive ==
  ASSUME NEW m \in Nat, NEW l \in Nat, m <= l
  PROVE  /\ m * (m - 1) \in Int /\ m * (m + 1) \in Int /\ l * (l - 1) \in Int /\ l * (l + 1) \in Int
         /\ 0 <= m * (m - 1) /\ m * (m - 1) <= l * (l - 1) /\ m * (m + 1) <= l * (l + 1)
         /\ m * (m - 1) + 2 * m = m * (m + 1)
         /\ m * (m + 1) = (m + 1) * ((m + 1) - 1)
<1>1. m * m \in Nat /\ l * l \in Nat /\ m * m <= l * l /\ (m = 0 \/ m <= m * m)
  OBVIOUS
<1>2. l = m \/ m * m + m <= l * l
  <2>1. CASE l # m
    <3>1. m * (m + 1) <= l * l
      BY <2>1
    <3>2. m * (m + 1) = m * m + m
      OBVIOUS
    <3> QED
      BY <3>1, <3>2
  <2> QED
    BY <2>1
<1>3. /\ m * (m - 1) = m * m - m /\ l * (l - 1) = l * l - l
      /\ m * (m + 1) = m * m + m /\ l * (l + 1) = l * l + l
      /\ (m + 1) * ((m + 1) - 1) = m * m + m
  OBVIOUS
<1>4. m * m - m <= l * l - l
  <2>1. CASE l = m
    BY <2>1
  <2>2. CASE l # m
    <3> DEFINE k == l - 1
    <3>1. k \in Nat /\ m <= k /\ l * (l - 1) = (k + 1) * k
      BY <2>2
    <3>2. m * (m - 1) <= (k + 1) * k
      <4>1. \A a, b, c, e \in Int : 0 <= a /\ a <= b /\ 0 <= e /\ c <= e /\ 0 <= b => a * c <= b * e
        OBVIOUS
      <4>2. 0 <= m /\ m <= k + 1 /\ 0 <= k /\ m - 1 <= k /\ m - 1 \in Int /\ k + 1 \in Int
        BY <3>1
      <4> HIDE DEF k
      <4> QED
        BY <3>1, <4>1, <4>2
    <3> QED
      BY <1>3, <3>1, <3>2
  <2> QED
    BY <2>1, <2>2
<1> QED
  BY <1>1, <1>3, <1>4

\* Fewer threads past their checks leave the bound.
LEMMA WithinShrinks ==
  ASSUME NEW L \in SUBSET Dispatchers, NEW P \in SUBSET Dispatchers, L \cap P = {},
         NEW L2 \in SUBSET L, NEW P2 \in SUBSET P,
         NEW s \in Nat, NEW b \in BOOLEAN, Within(L, P, s, b)
  PROVE  Within(L2, P2, s, b)
<1> DEFINE m == Cardinality(Dispatchers) - Cardinality(L)
           l == Cardinality(Dispatchers) - Cardinality(L2)
<1>1. IsFiniteSet(Dispatchers) /\ IsFiniteSet(L) /\ IsFiniteSet(P)
  BY FS_Subset, AlertConstants
<1>2. /\ Cardinality(L2) <= Cardinality(L) /\ Cardinality(P2) <= Cardinality(P)
      /\ Cardinality(Dispatchers) \in Nat /\ Cardinality(L) \in Nat /\ Cardinality(L2) \in Nat
      /\ Cardinality(P) \in Nat /\ Cardinality(P2) \in Nat /\ m \in Nat /\ l \in Nat
  <2>1. L2 \in SUBSET Dispatchers /\ P2 \in SUBSET Dispatchers /\ L2 \cap P2 = {}
    OBVIOUS
  <2>2. Cardinality(L2) <= Cardinality(L) /\ Cardinality(P2) <= Cardinality(P)
    BY <1>1, FS_Subset
  <2> QED
    BY <2>1, <2>2, ThreadCounts
<1>3. m <= l
  BY <1>2
<1>4. IF b THEN 2 * (s + Cardinality(P)) <= m * (m + 1) ELSE 2 * s <= m * (m - 1)
  BY DEF Within
<1>5. /\ m * (m - 1) \in Int /\ m * (m + 1) \in Int /\ l * (l - 1) \in Int /\ l * (l + 1) \in Int
      /\ m * (m - 1) <= l * (l - 1) /\ m * (m + 1) <= l * (l + 1)
  <2> HIDE DEF m, l
  <2> QED
    BY <1>2, <1>3, Consecutive
<1>6. IF b THEN 2 * (s + Cardinality(P2)) <= l * (l + 1) ELSE 2 * s <= l * (l - 1)
  <2> HIDE DEF m, l
  <2>1. CASE b
    BY <1>2, <1>4, <1>5, <2>1
  <2>2. CASE ~b
    BY <1>4, <1>5, <2>2
  <2> QED
    BY <2>1, <2>2
<1> QED
  BY <1>6 DEF Within

\* A record closes the cooldown.
LEMMA WithinCloses ==
  ASSUME NEW L \in SUBSET Dispatchers, NEW P \in SUBSET Dispatchers, L \cap P = {},
         NEW s \in Nat, NEW b \in BOOLEAN, Within(L, P, s, b)
  PROVE  Within(L, P, s, TRUE)
<1> DEFINE m == Cardinality(Dispatchers) - Cardinality(L)
<1>1. m \in Nat /\ Cardinality(P) \in Nat /\ Cardinality(P) <= m
  BY ThreadCounts
<1>2. IF b THEN 2 * (s + Cardinality(P)) <= m * (m + 1) ELSE 2 * s <= m * (m - 1)
  BY DEF Within
<1>3. 2 * (s + Cardinality(P)) <= m * (m + 1)
  <2> HIDE DEF m
  <2>1. m * (m - 1) + 2 * m = m * (m + 1) /\ m * (m - 1) \in Int /\ m * (m + 1) \in Int
    BY <1>1, Consecutive
  <2>2. CASE b
    BY <1>2, <2>2
  <2>3. CASE ~b
    <3>1. 2 * s <= m * (m - 1)
      BY <1>2, <2>3
    <3> QED
      BY <1>1, <2>1, <3>1
  <2> QED
    BY <2>2, <2>3
<1> QED
  BY <1>3 DEF Within

\* A delivery of a thread that passed in the cooldown.
LEMMA WithinDelivers ==
  ASSUME NEW L \in SUBSET Dispatchers, NEW P \in SUBSET Dispatchers, L \cap P = {},
         NEW s \in Nat, NEW b \in BOOLEAN, Within(L, P, s, b), NEW d \in P
  PROVE  Within(L, P \ {d}, s + 1, TRUE)
<1>1. Cardinality(P \ {d}) = Cardinality(P) - 1 /\ Cardinality(P) \in Nat
  <2>1. IsFiniteSet(P)
    BY FS_Subset, AlertConstants
  <2> QED
    BY <2>1, FS_RemoveElement, FS_CardinalityType
<1>2. (s + 1) + Cardinality(P \ {d}) = s + Cardinality(P)
  BY <1>1
<1>3. Within(L, P, s, TRUE)
  BY WithinCloses
<1> QED
  BY <1>2, <1>3 DEF Within

\* A delivery of a late thread opens the cooldown again.
LEMMA WithinReopens ==
  ASSUME NEW L \in SUBSET Dispatchers, NEW P \in SUBSET Dispatchers, L \cap P = {},
         NEW s \in Nat, NEW b \in BOOLEAN, Within(L, P, s, b), NEW d \in L
  PROVE  Within(L \ {d}, P, s, FALSE)
<1> DEFINE m == Cardinality(Dispatchers) - Cardinality(L)
           l == Cardinality(Dispatchers) - Cardinality(L \ {d})
<1>1. Cardinality(L \ {d}) = Cardinality(L) - 1
  <2>1. IsFiniteSet(L)
    BY FS_Subset, AlertConstants
  <2> QED
    BY <2>1, FS_RemoveElement
<1>2. m \in Nat /\ l = m + 1 /\ Cardinality(P) \in Nat
  <2>1. /\ Cardinality(Dispatchers) \in Nat /\ Cardinality(L) \in Nat /\ Cardinality(P) \in Nat
        /\ Cardinality(Dispatchers) - Cardinality(L) \in Nat
    BY ThreadCounts
  <2> QED
    BY <1>1, <2>1
<1>3. 2 * (s + Cardinality(P)) <= m * (m + 1)
  <2>1. Within(L, P, s, TRUE)
    BY WithinCloses
  <2> QED
    BY <2>1 DEF Within
<1>4. 2 * s <= l * (l - 1)
  <2> HIDE DEF m, l
  <2>1. m * (m + 1) = (m + 1) * ((m + 1) - 1) /\ m * (m + 1) \in Int
    BY <1>2, Consecutive
  <2>2. 2 * s <= m * (m + 1)
    BY <1>2, <1>3, <2>1
  <2> QED
    BY <1>2, <2>1, <2>2
<1> QED
  BY <1>4 DEF Within

\* While nothing was delivered and no record closes the cooldown there is room.
LEMMA WithinBefore ==
  ASSUME NEW L \in SUBSET Dispatchers, NEW P
  PROVE  Within(L, P, 0, FALSE)
<1> DEFINE m == Cardinality(Dispatchers) - Cardinality(L)
<1>1. m \in Nat
  <2>1. {} \in SUBSET Dispatchers /\ L \cap {} = {}
    OBVIOUS
  <2> QED
    BY <2>1, ThreadCounts
<1>2. 2 * 0 <= m * (m - 1)
  <2> HIDE DEF m
  <2> QED
    BY <1>1, Consecutive
<1> QED
  BY <1>2 DEF Within

\* The bound itself.
LEMMA WithinBounds ==
  ASSUME NEW L \in SUBSET Dispatchers, NEW P \in SUBSET Dispatchers, L \cap P = {},
         NEW s \in Nat, NEW b \in BOOLEAN, Within(L, P, s, b)
  PROVE  2 * s <= Cardinality(Dispatchers) * (Cardinality(Dispatchers) + 1)
<1> DEFINE n == Cardinality(Dispatchers)
           m == n - Cardinality(L)
<1>1. m \in Nat /\ n \in Nat /\ Cardinality(P) \in Nat /\ m <= n
  <2>1. /\ Cardinality(Dispatchers) \in Nat /\ Cardinality(L) \in Nat /\ Cardinality(P) \in Nat
        /\ Cardinality(Dispatchers) - Cardinality(L) \in Nat
    BY ThreadCounts
  <2> QED
    BY <2>1
<1>2. 2 * (s + Cardinality(P)) <= m * (m + 1)
  <2>1. Within(L, P, s, TRUE)
    BY WithinCloses
  <2> QED
    BY <2>1 DEF Within
<1> HIDE DEF n, m
<1>3. m * (m + 1) <= n * (n + 1) /\ m * (m + 1) \in Int /\ n * (n + 1) \in Int
  BY <1>1, Consecutive
<1>4. 2 * s <= n * (n + 1)
  BY <1>1, <1>2, <1>3
<1> QED
  BY <1>4 DEF n

\* The threads of a bound, their number and what they may deliver have their types.
LEMMA RepeatTypes ==
  ASSUME AlertTypeOK, NEW key \in PlainKeys, NEW t \in Clock
  PROVE  /\ Late(key, t) \in SUBSET Dispatchers /\ Passed(key, t) \in SUBSET Dispatchers
         /\ Late(key, t) \cap Passed(key, t) = {}
         /\ IsFiniteSet(Times(t)) /\ \A x \in Times(t) : x \in Clock /\ sent[key][x] \in Nat
         /\ Shown(key, t) \in Nat
<1>1. \A x \in Times(t) : x >= t /\ x \in Clock /\ x \in Nat
  BY AlertConstants DEF Times, Clock
<1>2. Late(key, t) \cap Passed(key, t) = {}
  <2>1. \A x \in Nat : ~(x >= t /\ x < t)
    BY AlertConstants DEF Clock
  <2> QED
    BY <1>1, <2>1 DEF Late, Passed
<1>3. IsFiniteSet(Times(t))
  <2>1. IsFiniteSet(Clock)
    BY AlertConstants, FS_Interval DEF Clock
  <2> QED
    BY <2>1, FS_Subset DEF Times
<1>4. \A x \in Times(t) : sent[key][x] \in Nat
  BY <1>1 DEF AlertTypeOK
<1>5. Shown(key, t) \in Nat
  BY <1>3, <1>4, SumType DEF Shown
<1> QED
  BY <1>1, <1>2, <1>3, <1>4, <1>5 DEF Late, Passed

\* A step of one thread moves that thread alone.
LEMMA OthersAreWhereTheyWere ==
  ASSUME NEW d \in Dispatchers, \A e \in Dispatchers \ {d} : dispatch'[e] = dispatch[e],
         NEW key, NEW t
  PROVE  /\ Late(key, t)' \ {d} = Late(key, t) \ {d}
         /\ Passed(key, t)' \ {d} = Passed(key, t) \ {d}
BY DEF Late, Passed

\* A thread that is no longer past its check, or not past it yet.
LEMMA ThreadRests ==
  ASSUME AlertTypeOK, RepeatInv, NEW d \in Dispatchers,
         \A e \in Dispatchers \ {d} : dispatch'[e] = dispatch[e],
         ~(dispatch'[d].pc \in {"admitting", "sending"}),
         dispatch'[d].checked <= clock',
         clock' = clock, UNCHANGED <<cooldown, sent>>
  PROVE  RepeatInv'
<1>1. \A e \in Dispatchers : dispatch'[e].checked <= clock'
  BY DEF RepeatInv
<1>2. ASSUME NEW key \in PlainKeys, NEW t \in Clock
      PROVE  Within(Late(key, t), Passed(key, t), Shown(key, t), cooldown[key] >= t)'
  <2>1. Late(key, t)' \in SUBSET Late(key, t) /\ Passed(key, t)' \in SUBSET Passed(key, t)
    <3>1. d \notin Late(key, t)' /\ d \notin Passed(key, t)'
      BY DEF Late, Passed, InFlight
    <3> QED
      BY <3>1, OthersAreWhereTheyWere
  <2>2. Shown(key, t)' = Shown(key, t)
    BY DEF Shown
  <2>3. Within(Late(key, t), Passed(key, t), Shown(key, t), cooldown[key] >= t)
    BY DEF RepeatInv
  <2>4. Within(Late(key, t)', Passed(key, t)', Shown(key, t), cooldown[key] >= t)
    <3> DEFINE b == cooldown[key] >= t
    <3>1. b \in BOOLEAN /\ Within(Late(key, t), Passed(key, t), Shown(key, t), b)
      BY <2>3
    <3> HIDE DEF b
    <3>2. Within(Late(key, t)', Passed(key, t)', Shown(key, t), b)
      BY <2>1, <3>1, RepeatTypes, WithinShrinks
    <3> QED
      BY <3>2 DEF b
  <2> QED
    BY <2>2, <2>4
<1> QED
  BY <1>1, <1>2 DEF RepeatInv

\* A thread that goes on with its check.
LEMMA ThreadGoesOn ==
  ASSUME AlertTypeOK, RepeatInv,
         \A e \in Dispatchers : /\ dispatch'[e].checked = dispatch[e].checked
                                /\ dispatch'[e].kind = dispatch[e].kind
                                /\ dispatch'[e].pc \in {"admitting", "sending"}
                                     <=> dispatch[e].pc \in {"admitting", "sending"},
         clock' = clock, UNCHANGED <<cooldown, sent>>
  PROVE  RepeatInv'
<1>1. \A key \in PlainKeys, t \in Clock :
        Late(key, t)' = Late(key, t) /\ Passed(key, t)' = Passed(key, t) /\ Shown(key, t)' = Shown(key, t)
  BY DEF Late, Passed, Shown, InFlight
<1>2. \A key \in PlainKeys, t \in Clock :
        Within(Late(key, t), Passed(key, t), Shown(key, t), cooldown[key] >= t)'
  BY <1>1 DEF RepeatInv
<1> QED
  BY <1>2 DEF RepeatInv

\* A check: while the cooldown is closed no thread passes it.
LEMMA CheckRepeats ==
  ASSUME AlertTypeOK, RepeatInv, NEW d \in Dispatchers, Check(d)
  PROVE  RepeatInv'
<1>1. /\ dispatch[d].pc = "checking"
      /\ UNCHANGED <<clock, cooldown, sent>>
  BY DEF Check
<1>2. CASE Cools(dispatch[d].kind)
  <2>1. dispatch' = [dispatch EXCEPT ![d] = NoDispatch]
    BY <1>2 DEF Check, Idle
  <2>2. dispatch'[d] = NoDispatch /\ \A e \in Dispatchers \ {d} : dispatch'[e] = dispatch[e]
    BY <2>1 DEF AlertTypeOK
  <2>3. NoDispatch.pc = "idle" /\ NoDispatch.checked <= clock
    BY AlertConstants DEF NoDispatch, AlertTypeOK, Clock
  <2> QED
    BY <1>1, <2>2, <2>3, ThreadRests
<1>3. CASE ~Cools(dispatch[d].kind)
  <2>1. dispatch' = [dispatch EXCEPT
            ![d].pc = "admitting", ![d].checked = clock,
            ![d].kept = [t \in Clock |-> IF t >= clock - RateWindow THEN window[t] ELSE 0]]
    BY <1>3 DEF Check
  <2>2. /\ dispatch'[d].kind = dispatch[d].kind /\ dispatch'[d].checked = clock
        /\ \A e \in Dispatchers \ {d} : dispatch'[e] = dispatch[e]
    BY <2>1 DEF AlertTypeOK
  <2>3. clock \in Clock /\ clock \in Nat
    BY AlertConstants DEF AlertTypeOK, Clock
  <2>4. \A e \in Dispatchers : dispatch'[e].checked <= clock'
    BY <1>1, <2>2, <2>3 DEF RepeatInv
  <2>5. ASSUME NEW key \in PlainKeys, NEW t \in Clock
        PROVE  Within(Late(key, t), Passed(key, t), Shown(key, t), cooldown[key] >= t)'
    <3> DEFINE L == Late(key, t)
               P == Passed(key, t)
               L2 == Late(key, t)'
               P2 == Passed(key, t)'
    <3>1. L2 \in SUBSET Dispatchers /\ P2 \in SUBSET Dispatchers
      BY DEF Late, Passed
    <3>2. L2 \ {d} = L \ {d} /\ P2 \ {d} = P \ {d}
      BY <2>2, OthersAreWhereTheyWere
    <3>3. d \notin L /\ d \notin P
      BY <1>1 DEF Late, Passed, InFlight
    <3>4. Shown(key, t)' = Shown(key, t) /\ Shown(key, t) \in Nat
      BY <1>1, RepeatTypes DEF Shown
    <3>5. Within(L, P, Shown(key, t), cooldown[key] >= t)
      BY DEF RepeatInv
    <3>6. t \in Nat /\ cooldown[key] \in Int /\ Cooldown \in Nat /\ Cooldown > 0
      BY AlertConstants DEF AlertTypeOK, Clock
    <3>7. CASE clock < t
      <4>1. ~(cooldown[key] >= t)
        BY <2>3, <3>6, <3>7 DEF RepeatInv
      <4>2. Shown(key, t) = 0
        <5>1. \A x \in Times(t) : sent[key][x] = 0 * sent[key][x] /\ sent[key][x] \in Nat
          <6>1. \A x \in Times(t) : x \in Clock /\ x > clock
            BY <2>3, <3>6, <3>7, AlertConstants DEF Times, Clock
          <6> QED
            BY <6>1 DEF RepeatInv
        <5>2. Shown(key, t) = 0 * Shown(key, t)
          BY <5>1, RepeatTypes, SumScale DEF Shown
        <5> QED
          BY <3>4, <5>2
      <4>3. Within(L2, P2, 0, FALSE)
        BY <3>1, WithinBefore
      <4> QED
        BY <1>1, <3>4, <4>1, <4>2, <4>3 DEF Within
    <3>8. CASE ~(clock < t)
      <4>1. L2 = L
        <5>1. d \notin L2
          BY <2>2, <2>3, <3>6, <3>8 DEF Late
        <5> QED
          BY <3>2, <3>3, <5>1
      <4>2. CASE cooldown[key] >= t /\ d \in P2
        <5>1. dispatch[d].kind \notin Critical /\ KeyOf[dispatch[d].kind] = key /\ clock \in Times(t)
          BY <2>2, <4>2 DEF Passed, InFlight
        <5>2. clock <= t + Cooldown - 1
          BY <5>1, <3>6, <2>3 DEF Times
        <5>3. cooldown[key] >= 0 /\ clock - cooldown[key] < Cooldown
          BY <2>3, <3>6, <4>2, <5>2
        <5> QED
          BY <1>3, <5>1, <5>3 DEF Cools
      <4>3. CASE cooldown[key] >= t /\ d \notin P2
        <5>1. P2 = P
          BY <3>2, <3>3, <4>3
        <5> QED
          BY <1>1, <3>4, <3>5, <4>1, <5>1
      <4>4. CASE ~(cooldown[key] >= t)
        <5>1. Within(L, P2, Shown(key, t), FALSE)
          BY <3>5, <4>4 DEF Within
        <5> QED
          BY <1>1, <3>4, <4>1, <4>4, <5>1 DEF Within
      <4> QED
        BY <4>2, <4>3, <4>4
    <3> QED
      BY <3>7, <3>8
  <2> QED
    BY <1>1, <2>4, <2>5 DEF RepeatInv
<1> QED
  BY <1>2, <1>3

\* A delivery counts for the time of its check; a late one opens the cooldown again.
LEMMA DeliverRepeats ==
  ASSUME AlertTypeOK, RepeatInv, AlertTypeOK', NEW d \in Dispatchers, Deliver(d)
  PROVE  RepeatInv'
<1> DEFINE kind == dispatch[d].kind
           at == dispatch[d].checked
           own == KeyOf[kind]
<1>1. /\ dispatch[d].pc = "sending" /\ dispatch' = [dispatch EXCEPT ![d] = NoDispatch]
      /\ clock' = clock
      /\ IF kind \in Critical THEN UNCHANGED <<cooldown, sent>>
         ELSE /\ cooldown' = [cooldown EXCEPT ![own] = at]
              /\ sent' = [sent EXCEPT ![own][at] = @ + 1]
  BY DEF Deliver, Idle
<1>2. dispatch'[d] = NoDispatch /\ \A e \in Dispatchers \ {d} : dispatch'[e] = dispatch[e]
  BY <1>1 DEF AlertTypeOK
<1>3. NoDispatch.pc = "idle" /\ NoDispatch.checked <= clock /\ clock \in Nat
  BY AlertConstants DEF NoDispatch, AlertTypeOK, Clock
<1>4. CASE kind \in Critical
  BY <1>1, <1>2, <1>3, <1>4, ThreadRests
<1>5. CASE kind \notin Critical
  <2>1. at \in Clock /\ at <= clock /\ at \in Nat /\ kind \in AlertKinds
    BY AlertConstants DEF AlertTypeOK, RepeatInv, Clock
  <2>2. own \in PlainKeys
    BY <1>5, <2>1 DEF PlainKeys
  <2>3. /\ cooldown'[own] = at /\ sent'[own][at] = sent[own][at] + 1
        /\ \A s \in Clock \ {at} : sent'[own][s] = sent[own][s]
        /\ \A key \in PlainKeys \ {own} : cooldown'[key] = cooldown[key] /\ sent'[key] = sent[key]
    BY <1>1, <1>5, <2>1, <2>2 DEF AlertTypeOK
  <2>4. \A e \in Dispatchers : dispatch'[e].checked <= clock'
    BY <1>1, <1>2, <1>3 DEF RepeatInv
  <2>5. \A key \in PlainKeys : cooldown'[key] <= clock' /\ \A s \in Clock : s > clock' => sent'[key][s] = 0
    <3>1. ~(at > clock)
      BY <1>3, <2>1
    <3>2. ASSUME NEW key \in PlainKeys
          PROVE  cooldown'[key] <= clock' /\ \A s \in Clock : s > clock' => sent'[key][s] = 0
      <4>1. cooldown[key] <= clock /\ \A s \in Clock : s > clock => sent[key][s] = 0
        BY DEF RepeatInv
      <4>2. CASE key = own
        BY <1>1, <2>1, <2>3, <3>1, <4>1, <4>2
      <4>3. CASE key # own
        BY <1>1, <2>3, <4>1, <4>3
      <4> QED
        BY <4>2, <4>3
    <3> QED
      BY <3>2
  <2>6. ASSUME NEW key \in PlainKeys, NEW t \in Clock
        PROVE  Within(Late(key, t), Passed(key, t), Shown(key, t), cooldown[key] >= t)'
    <3> DEFINE L == Late(key, t)
               P == Passed(key, t)
               L2 == Late(key, t)'
               P2 == Passed(key, t)'
               s == Shown(key, t)
               b == cooldown[key] >= t
    <3>1. /\ L \in SUBSET Dispatchers /\ P \in SUBSET Dispatchers /\ L \cap P = {} /\ s \in Nat
          /\ IsFiniteSet(Times(t)) /\ \A x \in Times(t) : x \in Clock /\ sent[key][x] \in Nat
      BY RepeatTypes
    <3>2. L2 = L \ {d} /\ P2 = P \ {d}
      <4>1. L2 \ {d} = L \ {d} /\ P2 \ {d} = P \ {d}
        BY <1>2, OthersAreWhereTheyWere
      <4>2. d \notin L2 /\ d \notin P2
        BY <1>2, <1>3 DEF Late, Passed, InFlight
      <4> QED
        BY <4>1, <4>2
    <3>3. Within(L, P, s, b) /\ b \in BOOLEAN
      BY DEF RepeatInv
    <3>4. CASE key # own
      <4>1. Shown(key, t)' = s
        BY <2>3, <3>4 DEF Shown
      <4>2. Within(L2, P2, s, b)
        <5> HIDE DEF L, P, L2, P2, s, b
        <5>1. L2 \in SUBSET L /\ P2 \in SUBSET P
          BY <3>2
        <5> QED
          BY <3>1, <3>3, <5>1, WithinShrinks
      <4> QED
        BY <2>3, <3>4, <4>1, <4>2 DEF Within
    <3>5. CASE key = own
      <4>1. (d \in L <=> at < t) /\ (d \in P <=> at \in Times(t))
        BY <1>1, <1>5, <3>5 DEF Late, Passed, InFlight
      <4>2. t \in Nat /\ cooldown'[key] = at
        BY <2>3, <3>5, AlertConstants DEF Clock
      <4>3. CASE at \in Times(t)
        <5>1. Shown(key, t)' = s + 1
          <6>1. \A x \in Times(t) : sent'[key][x] \in Nat
            BY <3>1 DEF AlertTypeOK
          <6>2. \A x \in Times(t) \ {at} : sent'[key][x] = sent[key][x]
            BY <2>3, <3>1, <3>5
          <6>3. Shown(key, t)' + sent[key][at] = Shown(key, t) + sent'[key][at]
            <7> DEFINE f == sent[key]
                       g == sent'[key]
                       S == Times(t)
            <7>1. IsFiniteSet(S) /\ at \in S /\ (\A x \in S : f[x] \in Nat /\ g[x] \in Nat)
                  /\ \A x \in S \ {at} : g[x] = f[x]
              BY <3>1, <4>3, <6>1, <6>2
            <7>2. Shown(key, t)' = SumFunctionOnSet(g, S) /\ Shown(key, t) = SumFunctionOnSet(f, S)
              BY DEF Shown, Times
            <7> HIDE DEF f, g, S
            <7>3. SumFunctionOnSet(g, S) + f[at] = SumFunctionOnSet(f, S) + g[at]
              BY <7>1, SumChange
            <7> QED
              BY <7>2, <7>3 DEF f, g
          <6>4. sent'[key][at] = sent[key][at] + 1 /\ sent[key][at] \in Nat
            BY <2>3, <3>1, <3>5, <4>3
          <6>5. Shown(key, t)' \in Nat
            BY <3>1, <6>1, SumType DEF Shown, Times
          <6> QED
            BY <3>1, <6>3, <6>4, <6>5
        <5>2. at >= t /\ d \in P /\ d \notin L
          BY <2>1, <3>1, <4>1, <4>2, <4>3 DEF Times
        <5>3. L2 = L /\ P2 = P \ {d}
          BY <3>2, <5>2
        <5>4. Within(L, P \ {d}, s + 1, TRUE)
          <6> HIDE DEF L, P, s, b
          <6> QED
            BY <3>1, <3>3, <5>2, WithinDelivers
        <5> QED
          BY <4>2, <5>1, <5>2, <5>3, <5>4 DEF Within
      <4>4. CASE at \notin Times(t)
        <5>1. Shown(key, t)' = s
          <6>1. \A x \in Times(t) : sent'[key][x] = sent[key][x]
            BY <2>3, <3>1, <3>5, <4>4
          <6> DEFINE f == sent[key]
                     g == sent'[key]
                     S == Times(t)
          <6>2. IsFiniteSet(S) /\ \A x \in S : f[x] \in Nat /\ g[x] = f[x]
            BY <3>1, <6>1
          <6>3. Shown(key, t)' = SumFunctionOnSet(g, S) /\ s = SumFunctionOnSet(f, S)
            BY DEF Shown, Times
          <6> HIDE DEF f, g, S, s
          <6> QED
            BY <6>2, <6>3, SumSame
        <5>2. CASE at < t
          <6>1. d \in L /\ d \notin P /\ ~(cooldown'[key] >= t)
            BY <2>1, <3>1, <4>1, <4>2, <5>2
          <6>2. L2 = L \ {d} /\ P2 = P
            BY <3>2, <6>1
          <6>3. Within(L \ {d}, P, s, FALSE)
            <7> HIDE DEF L, P, s, b
            <7> QED
              BY <3>1, <3>3, <6>1, WithinReopens
          <6> QED
            BY <5>1, <6>1, <6>2, <6>3 DEF Within
        <5>3. CASE ~(at < t)
          <6>1. L2 = L /\ P2 = P /\ cooldown'[key] >= t
            BY <2>1, <3>2, <4>1, <4>2, <4>4, <5>3
          <6>2. Within(L, P, s, TRUE)
            <7> HIDE DEF L, P, s, b
            <7> QED
              BY <3>1, <3>3, WithinCloses
          <6> QED
            BY <5>1, <6>1, <6>2 DEF Within
        <5> QED
          BY <5>2, <5>3
      <4> QED
        BY <4>3, <4>4
    <3> QED
      BY <3>4, <3>5
  <2> QED
    BY <2>4, <2>5, <2>6 DEF RepeatInv
<1> QED
  BY <1>4, <1>5

\* Every step keeps the bounds.
LEMMA RepeatStep ==
  ASSUME AlertTypeOK, RepeatInv, AlertTypeOK', [AlertNext]_alertVars
  PROVE  RepeatInv'
<1>1. CASE UNCHANGED <<dispatch, cooldown, sent>> /\ clock' \in {clock, clock + 1}
  <2>1. clock \in Nat /\ clock <= clock'
    BY <1>1, AlertConstants DEF AlertTypeOK, Clock
  <2>2. \A d \in Dispatchers : dispatch'[d].checked <= clock'
    BY <1>1, <2>1, AlertConstants DEF RepeatInv, AlertTypeOK, Clock
  <2>3. \A key \in PlainKeys : cooldown'[key] <= clock' /\ \A s \in Clock : s > clock' => sent'[key][s] = 0
    <3>1. \A key \in PlainKeys : cooldown[key] \in Int
      BY AlertConstants DEF AlertTypeOK, Clock
    <3>2. \A s \in Clock : s \in Int
      BY AlertConstants DEF Clock
    <3> QED
      BY <1>1, <2>1, <3>1, <3>2 DEF RepeatInv
  <2>4. \A key \in PlainKeys, t \in Clock :
          Within(Late(key, t), Passed(key, t), Shown(key, t), cooldown[key] >= t)'
    BY <1>1 DEF RepeatInv, Late, Passed, Shown
  <2> QED
    BY <2>2, <2>3, <2>4 DEF RepeatInv
<1>2. ASSUME NEW d \in Dispatchers, NEW k \in AlertKinds, Judge(d, k)
      PROVE  RepeatInv'
  <2>1. dispatch[d].pc = "idle" /\ UNCHANGED <<clock, cooldown, sent>>
        /\ \/ UNCHANGED dispatch
           \/ dispatch' = [dispatch EXCEPT ![d].pc = "checking", ![d].kind = k]
    BY <1>2 DEF Judge
  <2>2. /\ \A e \in Dispatchers \ {d} : dispatch'[e] = dispatch[e]
        /\ dispatch'[d].checked = dispatch[d].checked /\ dispatch'[d].pc \in {"idle", "checking"}
    BY <2>1 DEF AlertTypeOK
  <2> QED
    BY <2>1, <2>2, ThreadRests DEF RepeatInv
<1>3. ASSUME NEW d \in Dispatchers, Admit(d) \/ AttemptFails(d)
      PROVE  RepeatInv'
  <2>1. /\ dispatch[d].pc \in {"admitting", "sending"} /\ UNCHANGED <<clock, cooldown, sent>>
        /\ \/ dispatch' = [dispatch EXCEPT ![d] = NoDispatch]
           \/ dispatch' = [dispatch EXCEPT ![d].pc = "sending", ![d].attempt = 1, ![d].kept = Nothing]
           \/ dispatch[d].pc = "sending" /\ dispatch' = [dispatch EXCEPT ![d].attempt = @ + 1]
    BY <1>3 DEF Admit, AttemptFails, Idle
  <2>2. CASE dispatch' = [dispatch EXCEPT ![d] = NoDispatch]
    <3>1. dispatch'[d] = NoDispatch /\ \A e \in Dispatchers \ {d} : dispatch'[e] = dispatch[e]
      BY <2>2 DEF AlertTypeOK
    <3>2. NoDispatch.pc = "idle" /\ NoDispatch.checked <= clock
      BY AlertConstants DEF NoDispatch, AlertTypeOK, Clock
    <3> QED
      BY <2>1, <3>1, <3>2, ThreadRests
  <2>3. CASE dispatch' # [dispatch EXCEPT ![d] = NoDispatch]
    <3>1. /\ dispatch'[d].checked = dispatch[d].checked /\ dispatch'[d].kind = dispatch[d].kind
          /\ dispatch'[d].pc \in {"admitting", "sending"}
          /\ \A e \in Dispatchers \ {d} : dispatch'[e] = dispatch[e]
      BY <2>1, <2>3 DEF AlertTypeOK
    <3> QED
      BY <2>1, <3>1, ThreadGoesOn
  <2> QED
    BY <2>2, <2>3
<1>4. SwitchAlerts \/ ClockTicks \/ UNCHANGED alertVars
        => UNCHANGED <<dispatch, cooldown, sent>> /\ clock' \in {clock, clock + 1}
  BY DEF SwitchAlerts, ClockTicks, alertVars
<1> QED
  BY <1>1, <1>2, <1>3, <1>4, CheckRepeats, DeliverRepeats DEF AlertNext, DispatchStep

\* At first nothing was delivered.
LEMMA RepeatStart ==
  ASSUME AlertInit
  PROVE  RepeatInv
<1>1. /\ clock = 0 /\ cooldown = [k \in PlainKeys |-> -1] /\ sent = [k \in PlainKeys |-> Nothing]
      /\ dispatch = [d \in Dispatchers |-> NoDispatch]
  BY DEF AlertInit
<1>2. \A s \in Clock : s \in Nat
  BY AlertConstants DEF Clock
<1>3. NoDispatch.checked = 0
  BY DEF NoDispatch
<1>4. ASSUME NEW key \in PlainKeys, NEW t \in Clock
      PROVE  Within(Late(key, t), Passed(key, t), Shown(key, t), cooldown[key] >= t)
  <2>1. ~(cooldown[key] >= t) /\ Late(key, t) \in SUBSET Dispatchers
    BY <1>1, <1>2 DEF Late
  <2>2. Shown(key, t) = 0
    <3>1. AlertTypeOK
      BY AlertStart DEF AlertInv
    <3>2. \A x \in Times(t) : sent[key][x] \in Nat /\ sent[key][x] = 0 * sent[key][x]
      BY <1>1, <1>2 DEF Times, Nothing
    <3>3. Shown(key, t) = 0 * Shown(key, t) /\ Shown(key, t) \in Nat
      BY <3>1, <3>2, RepeatTypes, SumScale DEF Shown
    <3> QED
      BY <3>3
  <2>3. Within(Late(key, t), Passed(key, t), 0, FALSE)
    BY <2>1, WithinBefore
  <2> QED
    BY <2>1, <2>2, <2>3 DEF Within
<1> QED
  BY <1>1, <1>2, <1>3, <1>4 DEF RepeatInv, Nothing

\* With n dispatching threads an alert that is not critical goes out at most
\* n * (n + 1) / 2 times in a cooldown (alerts.py checks and records without a lock, and
\* records the time of the check), whatever the threads, the deliveries and their
\* failures do.
THEOREM AlertsCool == AlertSpec => []RepeatsCool
<1>1. AlertInv /\ RepeatInv /\ AlertInv' /\ [AlertNext]_alertVars => RepeatInv'
  BY RepeatStep DEF AlertInv
<1>2. AlertInv /\ RepeatInv => RepeatsCool
  <2>1. SUFFICES ASSUME AlertInv, RepeatInv, NEW key \in PlainKeys, NEW t \in Clock
                 PROVE  2 * Shown(key, t) <= Cardinality(Dispatchers) * (Cardinality(Dispatchers) + 1)
    BY DEF RepeatsCool, Shown, Times
  <2> DEFINE b == cooldown[key] >= t
  <2>2. b \in BOOLEAN /\ Within(Late(key, t), Passed(key, t), Shown(key, t), b)
    BY <2>1 DEF RepeatInv
  <2> HIDE DEF b
  <2> QED
    BY <2>1, <2>2, RepeatTypes, WithinBounds DEF AlertInv
<1> QED
  BY <1>1, <1>2, RepeatStart, AlertInvariant, PTL DEF AlertSpec

-----------------------------------------------------------------------------
(* The journal.                                                            *)

\* The order of a row.
OrderOf(r) == <<IF r.status = "OPEN" THEN "entry" ELSE "exit", r.trade>>

\* Every order is traded once, so it has one row; its writes come before any other trade
\* and are lost with the process.  What a recovery brought back and was not sold since
\* had an entry, and its rows and events are those that the recovery read.
JournalInv ==
  /\ JournalTypeOK
  /\ writing = NoWrites \/ writing \in [todo : {"event", "snapshot"}, order : Orders]
  /\ process # "up" => writing = NoWrites
  /\ \A r \in rows : OrderOf(r) \in guarded
  /\ \A r, s \in rows : OrderOf(r) = OrderOf(s) => r = s
  /\ writing # NoWrites => /\ writing.order \in guarded /\ writing.order[2] \notin reopened
                           /\ \A r \in rows : OrderOf(r) # writing.order
  /\ \A t \in reopened : <<"entry", t>> \in guarded
  /\ SoldStaysSold

\* What a recovery brings back: its last row is open, and if rows tell their order, no
\* record shows its sale.
LEMMA BroughtBack ==
  ASSUME JournalInv, NEW status \in Readings, Unmatched(status) = {}, NEW t \in LatestSnapshots
  PROVE  /\ t \in Trades /\ <<"entry", t>> \in guarded
         /\ ~Tied(t) => /\ <<"exit", t>> \notin logged
                        /\ \A c, o \in rows :
                             {c.trade, o.trade} = {t} /\ <<c.status, o.status>> = <<"CLOSED", "OPEN">>
                             => c.at < o.at
<1>1. t \in Trades /\ \E r \in LastRows(t) : r.status # "CLOSED"
  BY DEF LatestSnapshots
<1>2. PICK last \in LastRows(t) : last.status # "CLOSED"
  BY <1>1
<1>3. /\ last \in rows /\ last.trade = t /\ last.status = "OPEN" /\ last.at \in Int
      /\ \A s \in rows : s.trade = t => s.at <= last.at
  BY <1>2, JournalConstants DEF LastRows, JournalInv, JournalTypeOK
<1>4. OrderOf(last) = <<"entry", t>>
  BY <1>3 DEF OrderOf
<1>5. ASSUME ~Tied(t)
      PROVE  <<"exit", t>> \notin logged
  <2>1. \A r \in LastRows(t) : r = last
    <3>1. TAKE r \in LastRows(t)
    <3>2. r \in rows /\ r.trade = t /\ r.at \in Int /\ last.at <= r.at /\ r.at <= last.at
      BY <1>3, JournalConstants DEF LastRows, JournalInv, JournalTypeOK
    <3> QED
      BY <1>3, <1>5, <3>2 DEF Tied
  <2>2. status[t] = "OPEN"
    BY <1>1, <1>2, <1>3, <2>1 DEF Readings
  <2> QED
    BY <2>2 DEF Unmatched
<1>6. ASSUME ~Tied(t), NEW c \in rows, NEW o \in rows,
             {c.trade, o.trade} = {t}, <<c.status, o.status>> = <<"CLOSED", "OPEN">>
      PROVE  c.at < o.at
  <2>1. c.trade = t /\ o.trade = t /\ c.status = "CLOSED" /\ o.status = "OPEN"
    BY <1>6
  <2>2. o = last
    BY <1>3, <1>4, <2>1 DEF OrderOf, JournalInv
  <2>3. c.at # o.at /\ c.at <= o.at /\ c.at \in Int /\ o.at \in Int
    BY <1>3, <1>6, <2>1, <2>2, JournalConstants DEF Tied, JournalInv, JournalTypeOK
  <2> QED
    BY <2>3
<1> QED
  BY <1>1, <1>3, <1>4, <1>5, <1>6 DEF JournalInv

\* A trade starts the writes of an order that has no row.
LEMMA TradeStep ==
  ASSUME JournalInv, NEW t \in Trades, EnterTrade(t) \/ ExitTrade(t)
  PROVE  JournalInv'
<1>1. /\ process = "up" /\ writing = NoWrites
      /\ UNCHANGED <<wall, process, logged, rows, failedWrites>>
      /\ reopened' \subseteq reopened /\ trackedOpen' \subseteq Trades
  BY DEF EnterTrade, ExitTrade, JournalInv, JournalTypeOK
<1>2. \/ UNCHANGED <<guarded, writing>>
      \/ \E order \in Orders :
           Trade(order) /\ order[2] = t /\ (order = <<"entry", t>> \/ t \notin reopened')
  <2>1. CASE EnterTrade(t)
    <3>1. <<"entry", t>> \in Orders /\ <<"entry", t>>[2] = t
      BY DEF Orders
    <3> QED
      BY <2>1, <3>1 DEF EnterTrade
  <2>2. CASE ExitTrade(t)
    <3>1. <<"exit", t>> \in Orders /\ <<"exit", t>>[2] = t
      BY DEF Orders
    <3> QED
      BY <2>2, <3>1 DEF ExitTrade
  <2> QED
    BY <2>1, <2>2
<1>3. SoldStaysSold'
  <2>1. \A x : Tied(x)' = Tied(x)
    BY <1>1 DEF Tied
  <2> QED
    BY <1>1, <2>1 DEF JournalInv, SoldStaysSold
<1>4. CASE UNCHANGED <<guarded, writing>>
  BY <1>1, <1>3, <1>4 DEF JournalInv, JournalTypeOK
<1>5. ASSUME NEW order \in Orders, Trade(order), order[2] = t,
             order = <<"entry", t>> \/ t \notin reopened'
      PROVE  JournalInv'
  <2>1. /\ order \notin guarded /\ guarded' = guarded \cup {order}
        /\ writing' = [todo |-> "event", order |-> order]
    BY <1>5 DEF Trade
  <2>2. writing' # NoWrites /\ writing'.order = order /\ writing'.todo = "event"
        /\ writing' \in [todo : {"event", "snapshot"}, order : Orders]
    BY <2>1 DEF NoWrites
  <2>3. order[2] \notin reopened'
    BY <1>1, <1>5, <2>1 DEF JournalInv
  <2>4. JournalTypeOK'
    BY <1>1, <1>5, <2>1, <2>2 DEF JournalInv, JournalTypeOK
  <2>5. \A r \in rows' : OrderOf(r) \in guarded' /\ OrderOf(r) # order
    BY <1>1, <2>1 DEF JournalInv
  <2>6. \A x \in reopened' : <<"entry", x>> \in guarded'
    BY <1>1, <2>1 DEF JournalInv
  <2>7. \A r, s \in rows' : OrderOf(r) = OrderOf(s) => r = s
    BY <1>1 DEF JournalInv
  <2>8. writing'.order \in guarded'
    BY <2>1, <2>2
  <2> QED
    BY <1>1, <1>3, <2>2, <2>3, <2>4, <2>5, <2>6, <2>7, <2>8 DEF JournalInv
<1> QED
  BY <1>2, <1>4, <1>5

\* The writes add an event and a row of their order, or nothing.
LEMMA AppendStep ==
  ASSUME JournalInv, AppendEvent \/ AppendSnapshot
  PROVE  JournalInv'
<1>1. /\ writing.todo \in {"event", "snapshot"}
      /\ UNCHANGED <<wall, process, trackedOpen, guarded, reopened>>
      /\ failedWrites' \in 0..MaxFailedWrites
  BY JournalConstants DEF AppendEvent, AppendSnapshot, Fails, JournalInv, JournalTypeOK
<1>2. writing # NoWrites
  BY <1>1 DEF NoWrites
<1>3. /\ writing \in [todo : {"event", "snapshot"}, order : Orders] /\ process = "up"
      /\ writing.order \in guarded /\ writing.order[2] \notin reopened
      /\ \A r \in rows : OrderOf(r) # writing.order
  BY <1>2 DEF JournalInv
<1> DEFINE order == writing.order
<1>4. order \in Orders /\ order = <<order[1], order[2]>> /\ order[1] \in {"entry", "exit"}
      /\ order[2] \in Trades
  BY <1>3 DEF Orders
<1>5. CASE AppendEvent
  <2>1. /\ writing' = [writing EXCEPT !.todo = "snapshot"] /\ rows' = rows
        /\ logged' \subseteq logged \cup {order} /\ logged \subseteq logged'
    BY <1>5 DEF AppendEvent
  <2>2. /\ writing' \in [todo : {"event", "snapshot"}, order : Orders] /\ writing'.order = order
        /\ writing'.todo = "snapshot"
    BY <1>3, <2>1
  <2>3. JournalTypeOK'
    BY <1>1, <1>3, <2>1, <2>2 DEF JournalInv, JournalTypeOK
  <2>4. SoldStaysSold'
    <3>1. \A t \in reopened : <<"exit", t>> # order /\ Tied(t)' = Tied(t)
      BY <1>3, <2>1 DEF Tied
    <3>2. \A t \in reopened : <<"exit", t>> \notin logged => <<"exit", t>> \notin logged'
      BY <2>1, <3>1
    <3> QED
      BY <1>1, <2>1, <3>1, <3>2 DEF JournalInv, SoldStaysSold
  <2> QED
    BY <1>1, <1>3, <2>1, <2>2, <2>3, <2>4 DEF JournalInv
<1>6. CASE AppendSnapshot
  <2>1. /\ writing' = NoWrites /\ logged' = logged
        /\ rows' = rows \cup {Row(order)} \/ rows' = rows
    BY <1>6 DEF AppendSnapshot
  <2>2. /\ Row(order) \in [trade : Trades, status : {"OPEN", "CLOSED"}, at : 0..MaxStamp]
        /\ Row(order).trade = order[2] /\ OrderOf(Row(order)) = order
    BY <1>4 DEF Row, OrderOf, JournalInv, JournalTypeOK
  <2> HIDE DEF order
  <2>3. JournalTypeOK'
    <3>1. rows' \subseteq [trade : Trades, status : {"OPEN", "CLOSED"}, at : 0..MaxStamp]
      BY <2>1, <2>2 DEF JournalInv, JournalTypeOK
    <3>2. writing'.todo \in {"nothing", "event", "snapshot"}
      BY <2>1 DEF NoWrites
    <3> QED
      BY <1>1, <2>1, <3>1, <3>2 DEF JournalInv, JournalTypeOK
  <2>4. \A r \in rows' : OrderOf(r) \in guarded'
    BY <1>1, <1>3, <2>1, <2>2 DEF JournalInv, order
  <2>5. \A r, s \in rows' : OrderOf(r) = OrderOf(s) => r = s
    BY <1>3, <2>1, <2>2 DEF JournalInv, order
  <2>6. SoldStaysSold'
    <3>1. SUFFICES ASSUME NEW t \in reopened, ~Tied(t)'
                   PROVE  /\ <<"exit", t>> \notin logged
                          /\ \A c, o \in rows' :
                               {c.trade, o.trade} = {t} /\ <<c.status, o.status>> = <<"CLOSED", "OPEN">>
                               => c.at < o.at
      BY <1>1, <2>1 DEF SoldStaysSold
    <3>2. ~Tied(t)
      BY <2>1, <3>1 DEF Tied
    <3>3. \A c \in rows' : c.trade = t => c \in rows
      BY <1>3, <2>1, <2>2 DEF order
    <3>4. /\ <<"exit", t>> \notin logged
          /\ \A c, o \in rows :
               {c.trade, o.trade} = {t} /\ <<c.status, o.status>> = <<"CLOSED", "OPEN">>
               => c.at < o.at
      BY <3>2 DEF JournalInv, SoldStaysSold
    <3> QED
      BY <3>3, <3>4
  <2> QED
    BY <1>1, <2>1, <2>3, <2>4, <2>5, <2>6 DEF JournalInv
<1> QED
  BY <1>5, <1>6

\* Every step keeps the invariant.
LEMMA JournalStep ==
  ASSUME JournalInv, [JournalNext]_journalVars
  PROVE  JournalInv'
<1>1. CASE ClockIsSet \/ UNCHANGED journalVars
  <2>1. /\ UNCHANGED <<process, trackedOpen, guarded, logged, rows, writing, reopened, failedWrites>>
        /\ wall' \in 0..MaxStamp
    BY <1>1 DEF ClockIsSet, journalVars, JournalInv, JournalTypeOK
  <2> QED
    BY <2>1 DEF JournalInv, JournalTypeOK, SoldStaysSold, Tied
<1>2. CASE ProcessDies
  <2>1. /\ process' = "down" /\ trackedOpen' = {} /\ writing' = NoWrites /\ reopened' = {}
        /\ UNCHANGED <<wall, guarded, logged, rows, failedWrites>>
    BY <1>2 DEF ProcessDies
  <2>2. JournalTypeOK'
    BY <2>1 DEF JournalInv, JournalTypeOK, NoWrites
  <2> QED
    BY <2>1, <2>2 DEF JournalInv, SoldStaysSold
<1>3. CASE Recover
  <2>1. /\ process = "down" /\ guarded' = guarded \cup logged
        /\ UNCHANGED <<wall, logged, rows, writing, failedWrites>>
    BY <1>3 DEF Recover, Reconstructed
  <2>2. PICK status \in Readings :
          IF Unmatched(status) = {}
          THEN process' = "up" /\ trackedOpen' = LatestSnapshots /\ reopened' = LatestSnapshots
          ELSE process' = "refused" /\ UNCHANGED <<trackedOpen, reopened>>
    BY <1>3, Zenon DEF Recover
  <2>3. writing' = NoWrites /\ guarded' = guarded
    BY <2>1 DEF JournalInv, JournalTypeOK
  <2>4. \A t : Tied(t)' = Tied(t)
    BY <2>1 DEF Tied
  <2>5. CASE Unmatched(status) = {}
    <3>1. process' = "up" /\ trackedOpen' = LatestSnapshots /\ reopened' = LatestSnapshots
      BY <2>2, <2>5
    <3>2. \A t \in LatestSnapshots : t \in Trades /\ <<"entry", t>> \in guarded'
      BY <2>3, <2>5, BroughtBack
    <3>3. JournalTypeOK'
      BY <2>1, <2>3, <3>1, <3>2 DEF JournalInv, JournalTypeOK
    <3>4. SoldStaysSold'
      <4>1. SUFFICES ASSUME NEW t \in LatestSnapshots, ~Tied(t)
                     PROVE  /\ <<"exit", t>> \notin logged
                            /\ \A c, o \in rows :
                                 {c.trade, o.trade} = {t} /\ <<c.status, o.status>> = <<"CLOSED", "OPEN">>
                                 => c.at < o.at
        BY <2>1, <2>4, <3>1 DEF SoldStaysSold
      <4> QED
        BY <2>5, <4>1, BroughtBack
    <3> QED
      BY <2>1, <2>3, <3>1, <3>2, <3>3, <3>4 DEF JournalInv
  <2>6. CASE Unmatched(status) # {}
    <3>1. process' = "refused" /\ UNCHANGED <<trackedOpen, reopened>>
      BY <2>2, <2>6
    <3>2. JournalTypeOK'
      BY <2>1, <2>3, <3>1 DEF JournalInv, JournalTypeOK
    <3>3. SoldStaysSold'
      BY <2>1, <2>4, <3>1 DEF JournalInv, SoldStaysSold
    <3> QED
      BY <2>1, <2>3, <3>1, <3>2, <3>3 DEF JournalInv
  <2> QED
    BY <2>5, <2>6
<1> QED
  BY <1>1, <1>2, <1>3, TradeStep, AppendStep DEF JournalNext

\* An empty journal.
LEMMA JournalStart == JournalInit => JournalInv
<1>1. SUFFICES ASSUME JournalInit
               PROVE  JournalInv
  OBVIOUS
<1>2. JournalTypeOK
  <2>1. 0 \in 0..MaxStamp /\ 0 \in 0..MaxFailedWrites
    BY JournalConstants
  <2> QED
    BY <1>1, <2>1 DEF JournalInit, JournalTypeOK, NoWrites
<1> QED
  BY <1>1, <1>2 DEF JournalInit, JournalInv, SoldStaysSold

\* The journal's types, and that every order has one row.
THEOREM JournalInvariant == JournalSpec => []JournalInv
<1> QED
  BY JournalStart, JournalStep, PTL DEF JournalSpec

\* A restart brings back no position whose sale any record of the journal shows
\* (persistence/recovery.py and journal.py), wherever the process died, a write failed, or
\* the clock was set back; rows with equal times are excepted.
THEOREM SoldIsSold == JournalSpec => []SoldStaysSold
<1> QED
  BY JournalInvariant, PTL DEF JournalInv

-----------------------------------------------------------------------------
(* The services together.                                                  *)

\* A step of the services is a step, or the rest, of each of them.
LEMMA ServiceSteps ==
  ASSUME [Next]_vars
  PROVE  /\ [FeedNext]_feedVars /\ [StreamNext]_streamVars /\ [AlertNext]_alertVars
         /\ [BotNext]_botVars /\ [JournalNext]_journalVars
<1>1. CASE UNCHANGED vars
  BY <1>1 DEF vars
<1>2. CASE FeedMoves
  BY <1>2 DEF FeedMoves
<1>3. CASE StreamMoves
  BY <1>3 DEF StreamMoves
<1>4. CASE AlertsMove
  BY <1>4 DEF AlertsMove
<1>5. CASE BotMoves
  BY <1>5 DEF BotMoves
<1>6. CASE JournalMoves
  BY <1>6 DEF JournalMoves
<1> QED
  BY <1>1, <1>2, <1>3, <1>4, <1>5, <1>6 DEF Next

\* Each service keeps its own invariants beside the others.
LEMMA ServicesKeepTheirs ==
  Spec => /\ FeedSpec /\ AlertSpec /\ JournalSpec
          /\ []StreamInv /\ []BotInv /\ []OnceInv
<1>1. Init => FeedInit /\ StreamInit /\ AlertInit /\ BotInit /\ JournalInit
  BY DEF Init
<1>2. [Next]_vars => /\ [FeedNext]_feedVars /\ [StreamNext]_streamVars /\ [AlertNext]_alertVars
                     /\ [BotNext]_botVars /\ [JournalNext]_journalVars
  BY ServiceSteps
<1>3. BotInv /\ OnceInv /\ [BotNext]_botVars => OnceInv'
  BY OnceStep DEF BotInv
<1> QED
  BY <1>1, <1>2, <1>3, StreamStart, StreamStep, BotStart, BotStepKeeps, OnceStart, PTL
  DEF Spec, FeedSpec, AlertSpec, JournalSpec

\* Types of the five services, whichever of them the steps are of.
THEOREM ServiceTypes == Spec => []TypeOK
<1>1. StreamInv /\ BotInv /\ AlertInv /\ JournalInv => StreamTypeOK /\ BotTypeOK /\ AlertTypeOK /\ JournalTypeOK
  BY DEF StreamInv, BotInv, AlertInv, JournalInv
<1>2. FeedTypeOK /\ StreamTypeOK /\ AlertTypeOK /\ BotTypeOK /\ JournalTypeOK <=> TypeOK
  BY DEF TypeOK
<1> QED
  BY <1>1, <1>2, ServicesKeepTheirs, FeedTypes, AlertInvariant, JournalInvariant, PTL

\* What the services promise holds of the whole as well: the minute's weight, the seen
\* losses, the order of the candles, the cooldown and the critical alerts, the commands
\* that are neither lost, repeated nor overtaken, and the sales that stay sold.
THEOREM ServicesKeepTheirPromises ==
  Spec => [](/\ AttemptsWithinBudget /\ LossIsSeen /\ CandlesInOrder
             /\ RepeatsCool /\ CriticalIsHeard
             /\ ConfirmedIsAnswered /\ RunsOncePerProcess /\ RunInOrder
             /\ SoldStaysSold)
<1>1. StreamInv => CandlesInOrder
  BY DEF StreamInv
<1>2. BotInv => ConfirmedIsAnswered /\ RunInOrder
  BY DEF BotInv, Kept
<1>3. BotInv /\ OnceInv => RunsOncePerProcess
  BY OnceBounds
<1> QED
  BY <1>1, <1>2, <1>3, ServicesKeepTheirs, BudgetHolds, LossesAreSeen, AlertsCool,
     CriticalAlertsAreHeard, SoldIsSold, PTL
===============================================================================
