----------------------------- MODULE LogPruningMC -----------------------------
(* The filters of the runs of LogPruning: one that keeps its latest log for ever, and
   one that matches its logs and others and drops them with time. *)
EXTENDS LogPruning, TLC

CONSTANTS narrow, wide

TwoFilters == {narrow, wide}
TheirKinds == narrow :> {"a"} @@ wide :> {"a", "b"}
TheirRetention == narrow :> 0 @@ wide :> 2
OneLogEach == narrow :> 1 @@ wide :> 1
===============================================================================
