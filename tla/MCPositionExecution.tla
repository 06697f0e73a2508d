------------------------- MODULE MCPositionExecution -------------------------
(***************************************************************************)
(* Small instances of PositionExecution: two trades, the scan thread, the  *)
(* one-second loop and one request handler.                                *)
(***************************************************************************)
EXTENDS PositionExecution, TLC

\* Trades are interchangeable; used only by runs that check invariants.
TradeSymmetry == Permutations(Positions)
===============================================================================
