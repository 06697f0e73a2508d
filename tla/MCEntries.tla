------------------------------- MODULE MCEntries -------------------------------
(***************************************************************************)
(* Two symbols whose orders are worth all and half of the account, and one *)
(* setup of each.                                                          *)
(***************************************************************************)
EXTENDS Entries

CONSTANTS Wide, Tight

Sizes == [s \in Symbols |-> IF s = Tight THEN 100 ELSE 50]

\* run_api is configured for one position, where the count binds, and run_service for
\* two, where the exposure does.
Limits == [hot \in BOOLEAN |-> IF hot THEN 1 ELSE 2]

SetupCandles == [hot \in BOOLEAN |-> {<<Wide, 0>>, <<IF hot THEN Wide ELSE Tight, 1>>}]
===============================================================================
