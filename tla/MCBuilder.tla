------------------------------ MODULE MCBuilder -------------------------------
(***************************************************************************)
(* Small instances of Builder.                                             *)
(***************************************************************************)
EXTENDS Builder

\* The first failure of a stage blocks; only regressions, which have no limit, go
\* back to IMPLEMENT.
SmallLimits == [l \in {"build", "test", "security", "final"} |-> 1]
===============================================================================
