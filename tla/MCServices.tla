------------------------------ MODULE MCServices ------------------------------
(* Two request threads, of weights one and two; two dispatchers with the kinds *)
(* of alerts that the engine, the scanner and the control plane raise.         *)
EXTENDS Services, TLC

CONSTANTS scan, api

MCCharge == (scan :> 1) @@ (api :> 2)
MCKinds == {"kill", "failing", "recovered"}
MCKeyOf == [k \in MCKinds |-> CASE k \in {"failing", "recovered"} -> "scanner"
                                [] OTHER -> k]
MCStateOf == [k \in MCKinds |-> CASE k = "kill" -> "on"
                                  [] k = "failing" -> "FAIL_3"
                                  [] k = "recovered" -> "OK"]
===============================================================================
