---------------------------- MODULE MCDelivery ----------------------------
(* Small instances of Delivery for TLC: one environment or two stages, and *)
(* up to three releases, the first of which may already be served.         *)
EXTENDS Delivery

OneStage  == <<"production">>
TwoStages == <<"staging", "production">>
NoneWaived == {}
WaiveStaging == {<<"staging", 2>>}
=============================================================================
