---------------------------- MODULE MCBuildUnit ----------------------------
(* Small instances of BuildUnit for TLC: the build of a project with one   *)
(* workload next to the build of a project that has none.                  *)
EXTENDS BuildUnit

TwoImages == <<"web", "worker">>

OneHasWorker == [b \in Build |-> IF b = "unit" THEN {"worker"} ELSE {}]
=============================================================================
