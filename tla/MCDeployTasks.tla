--------------------------- MODULE MCDeployTasks ---------------------------
(* Small instances of DeployTasks for TLC: "migrate, then seed" in every   *)
(* release, of which the second does not run seed in this environment.     *)
EXTENDS DeployTasks

Both     == [r \in Release |-> <<"migrate", "seed">>]
SeedRest == [r \in Release |-> IF r = 2 THEN {"migrate"} ELSE {"migrate", "seed"}]

Upsets == [l \in Lagging |-> IF l THEN 1 ELSE 2]
=============================================================================
