----------------------------- MODULE GracePeriod ------------------------------
(***************************************************************************)
(* What alert-then-autoclose promises for one symbol: the clock closes a   *)
(* position only at the end of a whole grace period of a warning about     *)
(* that position which nobody dropped meanwhile.                           *)
(***************************************************************************)
EXTENDS Naturals

CONSTANTS Positions, NoPosition, Grace

VARIABLES warned,  \* the position the standing warning is about
          age,     \* the seconds it has stood
          sent     \* the position the clock sends to be closed

vars == <<warned, age, sent>>

Init == warned = NoPosition /\ age = 0 /\ sent = NoPosition

Warn(p) ==
  /\ warned = NoPosition /\ sent = NoPosition
  /\ warned' = p /\ age' = 0
  /\ UNCHANGED sent

Wait ==
  /\ warned # NoPosition /\ age < Grace
  /\ age' = age + 1
  /\ UNCHANGED <<warned, sent>>

\* The operator holds or closes, or the symbol has no open position left.
Drop ==
  /\ warned # NoPosition
  /\ warned' = NoPosition /\ age' = 0
  /\ UNCHANGED sent

Send ==
  /\ warned # NoPosition /\ age = Grace /\ sent = NoPosition
  /\ sent' = warned
  /\ warned' = NoPosition /\ age' = 0

Sent == sent # NoPosition /\ sent' = NoPosition /\ UNCHANGED <<warned, age>>

Next == (\E p \in Positions : Warn(p)) \/ Wait \/ Drop \/ Send \/ Sent

Spec == Init /\ [][Next]_vars
===============================================================================
