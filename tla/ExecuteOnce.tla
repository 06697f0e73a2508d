----------------------------- MODULE ExecuteOnce -----------------------------
(***************************************************************************)
(* What the execution pipeline promises about paper fills: a position is   *)
(* entered at most once, left at most once, and never left before it was   *)
(* entered.  Where the record of what was executed is durable the promise  *)
(* spans restarts; where it is held in memory it spans one process.        *)
(***************************************************************************)
EXTENDS Naturals

CONSTANT Positions

VARIABLES durable,    \* does the record of executed orders survive a restart?
          executed    \* the number of fills of every order

vars == <<durable, executed>>

Orders == {"entry", "exit"} \X Positions

TypeOK == durable \in BOOLEAN /\ executed \in [Orders -> Nat]

Init == durable \in BOOLEAN /\ executed = [k \in Orders |-> 0]

Enter(p) ==
  /\ executed[<<"entry", p>>] = 0
  /\ executed' = [executed EXCEPT ![<<"entry", p>>] = 1]
  /\ UNCHANGED durable

Exit(p) ==
  /\ executed[<<"entry", p>>] = 1
  /\ executed[<<"exit", p>>] = 0
  /\ executed' = [executed EXCEPT ![<<"exit", p>>] = 1]
  /\ UNCHANGED durable

\* A restart of a process that kept its record in memory starts a new account.
Forget ==
  /\ ~durable
  /\ executed' = [k \in Orders |-> 0]
  /\ UNCHANGED durable

Next == Forget \/ \E p \in Positions : Enter(p) \/ Exit(p)

Spec == Init /\ [][Next]_vars
===============================================================================
