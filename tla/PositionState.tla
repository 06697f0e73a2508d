---------------------------- MODULE PositionState ----------------------------
(***************************************************************************)
(* The lifecycle of a paper position: the transition table of              *)
(* runtime/position_state.py, and the two status sets that decide who may  *)
(* act on a position (tracker updates, fail-safe exits).  ABSENT stands    *)
(* for a position the tracker does not hold.                               *)
(***************************************************************************)

Absent == "ABSENT"

Statuses ==
  {"CANDIDATE", "VALIDATING", "RISK_REJECTED", "ENTERING", "OPEN", "WATCH",
   "CRITICAL", "EXITING", "CLOSED", "RECONCILIATION_REQUIRED", "LIQUIDATED"}

Targets ==
  [s \in Statuses |->
    CASE s = "CANDIDATE"  -> {"VALIDATING", "RISK_REJECTED", "RECONCILIATION_REQUIRED"}
      [] s = "VALIDATING" -> {"ENTERING", "RISK_REJECTED", "RECONCILIATION_REQUIRED"}
      [] s = "ENTERING"   -> {"OPEN", "CLOSED", "RECONCILIATION_REQUIRED"}
      [] s = "OPEN"       -> {"WATCH", "EXITING", "CLOSED", "RECONCILIATION_REQUIRED"}
      [] s = "WATCH"      -> {"OPEN", "CRITICAL", "EXITING", "CLOSED",
                              "RECONCILIATION_REQUIRED"}
      [] s = "CRITICAL"   -> {"EXITING", "CLOSED", "RECONCILIATION_REQUIRED"}
      [] s = "EXITING"    -> {"CLOSED", "RECONCILIATION_REQUIRED"}
      [] s = "RECONCILIATION_REQUIRED" -> {"OPEN", "EXITING", "CLOSED"}
      [] s \in {"RISK_REJECTED", "CLOSED", "LIQUIDATED"} -> {}]

\* validate_position_transition: staying put is allowed, the rest is the table.
CanTransition(from, to) ==
  from = to \/ (from \in Statuses /\ to \in Targets[from])

\* _is_active: the statuses a mark or a stop update may write over.
Active == {"OPEN", "WATCH", "CRITICAL", "ENTERING"}

\* MANAGED_STATUSES: the statuses a fail-safe exit may start from.
Managed == {"OPEN", "WATCH", "CRITICAL"}
===============================================================================
