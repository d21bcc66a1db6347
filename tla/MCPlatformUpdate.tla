-------------------------- MODULE MCPlatformUpdate --------------------------
(* Small instances of PlatformUpdate for TLC: four versions, the last of   *)
(* which is the next minor version.                                        *)
EXTENDS PlatformUpdate

NextMinorLast == [v \in Version |-> IF v = 4 THEN 1 ELSE 0]

ThreeWhenCalm == [c \in Calm |-> IF c THEN 3 ELSE 2]
=============================================================================
