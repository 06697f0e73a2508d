---------------------------- MODULE MCPositionGuard ---------------------------
(***************************************************************************)
(* A symbol with a long and a short position entered at 100, one R = 4.    *)
(* 108 is the long one's +2R and beyond the short one's stop at 104; 97 is *)
(* a loss of 0.75R for the long one, beyond its stop once that has moved.  *)
(***************************************************************************)
EXTENDS PositionGuard

Entries == [p \in Positions |-> 100]
===============================================================================
